---- MODULE Spec2Model ----
(***************************************************************************)
(* Snowflake id generator (src/src/index.ts): createSnowflake, the         *)
(* generator closure it returns, the decoders parseSnowflakeId,            *)
(* getSnowflakeTimestamp and snowflakeToDate, and the adapters that build  *)
(* a configuration from process.env and from localStorage.                 *)
(*                                                                         *)
(* Times are milliseconds counted from 2020-01-01T00:00:00.000Z (the       *)
(* library's default epoch, 1577836800000 ms after the Unix epoch), so     *)
(* that clock readings, epochs and ids fit TLC's 32-bit integers.  All    *)
(* bit widths and shifts are those of the source.                          *)
(***************************************************************************)
EXTENDS Integers, Sequences, FiniteSets, TLC

\* ------------------------------------------------------------------ bounds
\* Largest clock reading Date.now() can return in the model.
MaxClock == 2
\* The custom epoch a caller passes in the model (the default epoch is 0).
CustomEpoch == 1
\* Number of ids the two-generator specification records in call order.
MaxEmit == 3

\* --------------------------------------------------------------- constants
DEFAULT_EPOCH == 0

TIMESTAMP_BITS == 41
DATACENTER_BITS == 5
WORKER_BITS == 5
SEQUENCE_BITS == 12

\* ------------------------------------------------------- BigInt arithmetic
\* x << n and x >> n on arbitrary-precision integers (>> rounds towards
\* minus infinity, as BigInt's arithmetic shift does).
Shl(x, n) == x * (2 ^ n)
Shr(x, n) == x \div (2 ^ n)

\* a | b and a & b on two's-complement integers of unbounded width.
RECURSIVE BitOr(_, _)
BitOr(a, b) ==
    IF a = 0 THEN b
    ELSE IF b = 0 THEN a
    ELSE IF a = -1 \/ b = -1 THEN -1
    ELSE 2 * BitOr(a \div 2, b \div 2)
         + (IF a % 2 = 1 \/ b % 2 = 1 THEN 1 ELSE 0)

RECURSIVE BitAnd(_, _)
BitAnd(a, b) ==
    IF a = 0 \/ b = 0 THEN 0
    ELSE IF a = -1 THEN b
    ELSE IF b = -1 THEN a
    ELSE 2 * BitAnd(a \div 2, b \div 2)
         + (IF a % 2 = 1 /\ b % 2 = 1 THEN 1 ELSE 0)

MAX_DATACENTER_ID == Shl(1, DATACENTER_BITS) - 1
MAX_WORKER_ID == Shl(1, WORKER_BITS) - 1
MAX_SEQUENCE == Shl(1, SEQUENCE_BITS) - 1

SEQUENCE_SHIFT == 0
WORKER_SHIFT == SEQUENCE_BITS
DATACENTER_SHIFT == SEQUENCE_BITS + WORKER_BITS
TIMESTAMP_SHIFT == SEQUENCE_BITS + WORKER_BITS + DATACENTER_BITS

\* ------------------------------------------------------ decimal id strings
\* A string is a sequence of one-character strings.
DigitChars == <<"0", "1", "2", "3", "4", "5", "6", "7", "8", "9">>

IsDigit(c) == \E d \in 1..10 : DigitChars[d] = c
DigitValue(c) == (CHOOSE d \in 1..10 : DigitChars[d] = c) - 1

\* BigInt.prototype.toString(): decimal digits, most significant first, with
\* a leading "-" for a negative value.
RECURSIVE NatToString(_)
NatToString(n) ==
    IF n < 10 THEN <<DigitChars[n + 1]>>
    ELSE Append(NatToString(n \div 10), DigitChars[(n % 10) + 1])

BigIntToString(n) == IF n < 0 THEN <<"-">> \o NatToString(-n) ELSE NatToString(n)

RECURSIVE DigitsValue(_)
DigitsValue(s) ==
    IF s = <<>> THEN 0
    ELSE 10 * DigitsValue(SubSeq(s, 1, Len(s) - 1)) + DigitValue(s[Len(s)])

AllDigits(s) == Len(s) > 0 /\ \A i \in 1..Len(s) : IsDigit(s[i])

\* White space is trimmed by BigInt(string) and skipped by parseInt.
IsSpace(c) == c \in {" ", "\t", "\n", "\r"}

RECURSIVE TrimLeft(_)
TrimLeft(s) == IF s # <<>> /\ IsSpace(s[1]) THEN TrimLeft(Tail(s)) ELSE s

RECURSIVE TrimRight(_)
TrimRight(s) ==
    IF s # <<>> /\ IsSpace(s[Len(s)]) THEN TrimRight(SubSeq(s, 1, Len(s) - 1)) ELSE s

Trim(s) == TrimRight(TrimLeft(s))

\* The digits of the literals 0b..., 0o... and 0x... that BigInt(string)
\* accepts besides decimal ones.
LowerDigits == <<"0", "1", "2", "3", "4", "5", "6", "7", "8", "9",
                 "a", "b", "c", "d", "e", "f">>
UpperDigits == <<"0", "1", "2", "3", "4", "5", "6", "7", "8", "9",
                 "A", "B", "C", "D", "E", "F">>

IsRadixDigit(c, radix) ==
    \E d \in 1..radix : LowerDigits[d] = c \/ UpperDigits[d] = c
RadixDigitValue(c) ==
    (CHOOSE d \in 1..Len(LowerDigits) : LowerDigits[d] = c \/ UpperDigits[d] = c) - 1

\* The radix a literal's prefix selects, 10 when it has no prefix.
RadixOf(s) ==
    IF Len(s) > 2 /\ s[1] = "0"
      THEN IF s[2] \in {"x", "X"} THEN Len(LowerDigits)
           ELSE IF s[2] \in {"o", "O"} THEN 8
           ELSE IF s[2] \in {"b", "B"} THEN 2
           ELSE Len(DigitChars)
    ELSE Len(DigitChars)

RECURSIVE RadixValue(_, _)
RadixValue(s, radix) ==
    IF s = <<>> THEN 0
    ELSE radix * RadixValue(SubSeq(s, 1, Len(s) - 1), radix)
         + RadixDigitValue(s[Len(s)])

\* BigInt(string): white space around the literal is dropped; the empty
\* literal is 0n, an optionally signed run of decimal digits or an unsigned
\* 0b / 0o / 0x literal is its value, anything else is a SyntaxError.
BigIntParses(s) ==
    LET t == Trim(s)
    IN  \/ t = <<>>
        \/ AllDigits(t)
        \/ Len(t) > 1 /\ t[1] \in {"-", "+"} /\ AllDigits(Tail(t))
        \/ /\ RadixOf(t) # Len(DigitChars)
           /\ \A i \in 3..Len(t) : IsRadixDigit(t[i], RadixOf(t))

BigIntOfString(s) ==
    LET t == Trim(s)
    IN  IF t = <<>> THEN 0
        ELSE IF t[1] = "-" THEN -DigitsValue(Tail(t))
        ELSE IF t[1] = "+" THEN DigitsValue(Tail(t))
        ELSE IF RadixOf(t) # Len(DigitChars)
          THEN RadixValue(SubSeq(t, 3, Len(t)), RadixOf(t))
        ELSE DigitsValue(t)

\* ------------------------------------------------------------------- state
Gens == 1..2
Fields == {"epoch", "datacenterId", "workerId"}

VARIABLES
    created,        \* created[g]: createSnowflake has returned generator g
    epoch,          \* epoch[g], datacenterId[g], workerId[g]: the values the
    datacenterId,   \*   closure of generator g captured
    workerId,
    lastTimestamp,  \* lastTimestamp[g], sequence[g]: the closure's state
    sequence,
    running,        \* the generator whose generate() call is on the stack
                    \*   (in its spin-wait), 0 when no call is running
    outcome,        \* what the most recent createSnowflake / generate call
                    \*   was given and what it returned or threw
    decoded,        \* what the most recent decoder call returned or threw
    lastId,         \* lastId[g]: <<i>>, i the id g returned last
    maxEarlier,     \* maxEarlier[g]: <<m>>, m the largest id g returned
                    \*   before that one
    emitted,        \* the ids returned, in call order (two-generator spec)
    caller,         \* what the calling code keeps in its own variables: the
                    \*   clock readings it took before and after a call, and
                    \*   the one-shot call it made before the latest one
    env,            \* process.env: the variables that are set, with their text
    browser,        \* globalThis.navigator and globalThis.screen (<<>> when
                    \*   undefined, else <<o>>, o the object's properties) and
                    \*   the time zone Intl.DateTimeFormat() resolves to
    localStorage,   \* globalThis.localStorage: whether it is defined, and
                    \*   the items it holds
    adapter         \* what the most recent call of an adapter function was
                    \*   given and what it returned or threw

gen == <<created, epoch, datacenterId, workerId, lastTimestamp, sequence>>
ghost == <<lastId, maxEarlier, emitted, caller>>
io == <<env, browser, localStorage, adapter>>
vars == <<created, epoch, datacenterId, workerId, lastTimestamp, sequence,
          running, outcome, decoded, lastId, maxEarlier, emitted, caller,
          env, browser, localStorage, adapter>>

NoError == [text |-> "", max |-> 0]
\* Mutant: the datacenter check reports the worker's message.
DatacenterError_AsWorker ==
    [text |-> "Worker ID must be between 0 and", max |-> MAX_DATACENTER_ID]

DatacenterError ==
    [text |-> "Datacenter ID must be between 0 and", max |-> MAX_DATACENTER_ID]
WorkerError ==
    [text |-> "Worker ID must be between 0 and", max |-> MAX_WORKER_ID]
ClockError ==
    [text |-> "Clock moved backwards. Refusing to generate id", max |-> 0]
SyntaxError == [text |-> "Cannot convert to a BigInt", max |-> 0]

NoConfig == [f \in {} |-> 0]

\* op: "create" or "generate"; kind: "generator", "id", "spinning" (the call
\* is in its spin-wait) or "throw"; config: the argument of createSnowflake;
\* read, now: the first and the latest clock reading of the generate() call;
\* waited: the call went through the spin-wait.
NoOutcome ==
    [op |-> "none", gen |-> 0, kind |-> "none", id |-> <<>>, error |-> NoError,
     config |-> NoConfig, read |-> -1, now |-> -1, waited |-> FALSE]

\* fn: the decoder called; kind: "components", "number", "date" or "throw";
\* id, args: its arguments, args being <<>> when the epoch argument is left
\* out and <<e>> when it is passed; epoch: the epoch it computed with.
NoDecoded == [fn |-> "none", kind |-> "none", id |-> <<>>, args |-> <<>>,
              epoch |-> 0, timestamp |-> 0, datacenterId |-> 0, workerId |-> 0,
              sequence |-> 0, date |-> 0, error |-> NoError]

\* A message of an adapter: `subject name text [min and max]`.
NoMessage == [subject |-> "", name |-> "", text |-> "", min |-> 0, max |-> 0]

\* fn: the adapter function called; kind: "config", "void", "generator" or
\* "throw"; arg: its argument (the overrides, the configuration to save);
\* loaded: the configuration it loaded from process.env or localStorage;
\* browser: the configuration it generated from the browser's
\* characteristics; final: the configuration it passed to createSnowflake;
\* error: what it threw; warnings: what it passed to console.warn; saved:
\* <<c>> when the adapter call just before it was saveConfigToStorage(c)
\* (kept by loadConfigFromStorage and clearStoredConfig); earlier: <<c>>
\* when the adapter call just before it was generateBrowserConfig() and
\* returned c (kept by generateBrowserConfig).
NoAdapter ==
    [fn |-> "none", kind |-> "none", arg |-> NoConfig, loaded |-> NoConfig,
     browser |-> NoConfig, final |-> NoConfig, error |-> NoMessage,
     warnings |-> <<>>, saved |-> <<>>, earlier |-> <<>>]

\* An environment with neither navigator nor screen.
NoBrowser == [navigator |-> <<>>, screen |-> <<>>, timeZone |-> <<"U", "T", "C">>]

\* before, after: <<>>, or <<t>> when the calling code read the clock, t,
\* just before the latest generate() call and just after it returned;
\* earlier: <<o>> when the calling code made the one-shot call o before the
\* latest one.
NoCaller == [before |-> <<>>, after |-> <<>>, earlier |-> <<>>]

Init ==
    /\ env = NoConfig
    /\ browser = NoBrowser
    /\ localStorage = [defined |-> TRUE, items |-> NoConfig]
    /\ adapter = NoAdapter
    /\ created = [g \in Gens |-> FALSE]
    /\ epoch = [g \in Gens |-> DEFAULT_EPOCH]
    /\ datacenterId = [g \in Gens |-> 0]
    /\ workerId = [g \in Gens |-> 0]
    /\ lastTimestamp = [g \in Gens |-> -1]
    /\ sequence = [g \in Gens |-> 0]
    /\ running = 0
    /\ outcome = NoOutcome
    /\ decoded = NoDecoded
    /\ lastId = [g \in Gens |-> <<>>]
    /\ maxEarlier = [g \in Gens |-> <<>>]
    /\ emitted = <<>>
    /\ caller = NoCaller

\* Mutant: the call yields during its spin-wait, other calls may start.
Idle_Yielding == TRUE

\* The generator closure is a plain synchronous function (no await, no
\* yield): a call runs to completion before any other call starts.
Idle == running = 0

\* ---------------------------------------------------------- createSnowflake
\* A configuration is a record with any subset of the three optional fields.
ConfigsOver(E, D, W) ==
    { c \in UNION { [S -> E \cup D \cup W] : S \in SUBSET Fields } :
        /\ "epoch" \in DOMAIN c => c["epoch"] \in E
        /\ "datacenterId" \in DOMAIN c => c["datacenterId"] \in D
        /\ "workerId" \in DOMAIN c => c["workerId"] \in W }

\* Destructuring with a default: the default stands in for a missing field.
Default(config, field, value) ==
    IF field \in DOMAIN config THEN config[field] ELSE value

DatacenterIdInvalid(d) == d < 0 \/ d > MAX_DATACENTER_ID

\* Mutant: the upper bound of the worker id is off by one.
WorkerIdInvalid_OffByOne(w) == w < 0 \/ w > MAX_WORKER_ID + 1

WorkerIdInvalid(w) == w < 0 \/ w > MAX_WORKER_ID

\* Mutant: construction rejects a configuration an existing generator has.
createSnowflake_Registered(g, config) ==
    LET e == Default(config, "epoch", DEFAULT_EPOCH)
        d == Default(config, "datacenterId", 0)
        w == Default(config, "workerId", 0)
        o == [NoOutcome EXCEPT !.op = "create", !.gen = g, !.config = config]
    IN  /\ Idle
        /\ ~created[g]
        /\ IF DatacenterIdInvalid(d)
             THEN /\ outcome' = [o EXCEPT !.kind = "throw", !.error = DatacenterError]
                  /\ UNCHANGED gen
           ELSE IF WorkerIdInvalid(w)
             THEN /\ outcome' = [o EXCEPT !.kind = "throw", !.error = WorkerError]
                  /\ UNCHANGED gen
           ELSE IF \E h \in Gens : /\ created[h]
                                   /\ <<epoch[h], datacenterId[h], workerId[h]>> = <<e, d, w>>
             THEN /\ outcome' = [o EXCEPT !.kind = "throw"]
                  /\ UNCHANGED gen
           ELSE /\ created' = [created EXCEPT ![g] = TRUE]
                /\ epoch' = [epoch EXCEPT ![g] = e]
                /\ datacenterId' = [datacenterId EXCEPT ![g] = d]
                /\ workerId' = [workerId EXCEPT ![g] = w]
                /\ lastTimestamp' = [lastTimestamp EXCEPT ![g] = -1]
                /\ sequence' = [sequence EXCEPT ![g] = 0]
                /\ outcome' = [o EXCEPT !.kind = "generator"]
        /\ UNCHANGED <<running, decoded>>

\* Lines 44-57: validate the ids, then start the closure's state.
createSnowflake(g, config) ==
    LET e == Default(config, "epoch", DEFAULT_EPOCH)
        d == Default(config, "datacenterId", 0)
        w == Default(config, "workerId", 0)
        o == [NoOutcome EXCEPT !.op = "create", !.gen = g, !.config = config]
    IN  /\ Idle
        /\ ~created[g]
        /\ IF DatacenterIdInvalid(d)
             THEN /\ outcome' = [o EXCEPT !.kind = "throw", !.error = DatacenterError]
                  /\ UNCHANGED gen
           ELSE IF WorkerIdInvalid(w)
             THEN /\ outcome' = [o EXCEPT !.kind = "throw", !.error = WorkerError]
                  /\ UNCHANGED gen
           ELSE /\ created' = [created EXCEPT ![g] = TRUE]
                /\ epoch' = [epoch EXCEPT ![g] = e]
                /\ datacenterId' = [datacenterId EXCEPT ![g] = d]
                /\ workerId' = [workerId EXCEPT ![g] = w]
                /\ lastTimestamp' = [lastTimestamp EXCEPT ![g] = -1]
                /\ sequence' = [sequence EXCEPT ![g] = 0]
                /\ outcome' = [o EXCEPT !.kind = "generator"]
        /\ UNCHANGED <<running, decoded>>

\* ---------------------------------------------------------------- generate
\* Mutant: the epoch is not subtracted from the timestamp.
EncodeId_NoEpoch(timestamp, e, d, w, s) ==
    BitOr(BitOr(BitOr(Shl(timestamp, TIMESTAMP_SHIFT), Shl(d, DATACENTER_SHIFT)),
                Shl(w, WORKER_SHIFT)),
          s)

\* Mutant: the worker id is shifted to the datacenter's position.
EncodeId_WorkerShift(timestamp, e, d, w, s) ==
    LET timestampOffset == timestamp - e
    IN  BitOr(BitOr(BitOr(Shl(timestampOffset, TIMESTAMP_SHIFT),
                          Shl(d, DATACENTER_SHIFT)),
                    Shl(w, DATACENTER_SHIFT)),
              s)

\* Lines 81-89: the id built from the closure's fields.
EncodeId(timestamp, e, d, w, s) ==
    LET timestampOffset == timestamp - e
    IN  BitOr(BitOr(BitOr(Shl(timestampOffset, TIMESTAMP_SHIFT),
                          Shl(d, DATACENTER_SHIFT)),
                    Shl(w, WORKER_SHIFT)),
              s)

\* Mutant: lastTimestamp is one variable that all generators share.
Return_Shared(g, read, timestamp, s, waited) ==
    LET id == EncodeId(timestamp, epoch[g], datacenterId[g], workerId[g], s)
    IN  /\ lastTimestamp' = [h \in Gens |-> timestamp]
        /\ sequence' = [sequence EXCEPT ![g] = s]
        /\ running' = 0
        /\ outcome' = [NoOutcome EXCEPT !.op = "generate", !.gen = g,
                           !.kind = "id", !.id = BigIntToString(id),
                           !.read = read, !.now = timestamp, !.waited = waited]

\* Mutant: the timestamp stored and encoded is the call's first reading.
Return_FirstReading(g, read, timestamp, s, waited) ==
    LET id == EncodeId(read, epoch[g], datacenterId[g], workerId[g], s)
    IN  /\ lastTimestamp' = [lastTimestamp EXCEPT ![g] = read]
        /\ sequence' = [sequence EXCEPT ![g] = s]
        /\ running' = 0
        /\ outcome' = [NoOutcome EXCEPT !.op = "generate", !.gen = g,
                           !.kind = "id", !.id = BigIntToString(id),
                           !.read = read, !.now = timestamp, !.waited = waited]

\* Lines 79-91: store the timestamp, build the id and return its string.
\* `read` is the call's first clock reading.
Return(g, read, timestamp, s, waited) ==
    LET id == EncodeId(timestamp, epoch[g], datacenterId[g], workerId[g], s)
    IN  /\ lastTimestamp' = [lastTimestamp EXCEPT ![g] = timestamp]
        /\ sequence' = [sequence EXCEPT ![g] = s]
        /\ running' = 0
        /\ outcome' = [NoOutcome EXCEPT !.op = "generate", !.gen = g,
                           !.kind = "id", !.id = BigIntToString(id),
                           !.read = read, !.now = timestamp, !.waited = waited]

\* Mutant: the regression check is missing.
ClockMovedBackwards_Never(timestamp, last) == FALSE

\* Mutant: a regression of one millisecond is let through.
ClockMovedBackwards_ByTwo(timestamp, last) == timestamp < last - 1

\* Line 62.
ClockMovedBackwards(timestamp, last) == timestamp < last

\* Mutants: the sequence is not masked; the sequence steps by two.
NextSequence_NoMask(s) == s + 1
NextSequence_Double(s) == BitAnd(s + 2, MAX_SEQUENCE)

\* Line 68.
NextSequence(s) == BitAnd(s + 1, MAX_SEQUENCE)

\* Mutants: the wait loop is never entered; the loop stops at an equal reading.
KeepWaiting_Never(timestamp, last) == FALSE
KeepWaiting_Strict(timestamp, last) == timestamp < last

\* Mutants: the loop goes on at an equal reading only; the loop never stops.
KeepWaiting_Equal(timestamp, last) == timestamp = last
KeepWaiting_Always(timestamp, last) == TRUE

\* Line 71, the condition of the wait loop.
KeepWaiting(timestamp, last) == timestamp <= last

\* Mutant: a call that throws has reset the sequence first.
generate_Resetting(g, now) ==
    /\ Idle
    /\ created[g]
    /\ IF ClockMovedBackwards(now, lastTimestamp[g])
         THEN /\ outcome' = [NoOutcome EXCEPT !.op = "generate", !.gen = g,
                                 !.kind = "throw", !.error = ClockError,
                                 !.read = now, !.now = now]
              /\ sequence' = [sequence EXCEPT ![g] = 0]
              /\ UNCHANGED <<lastTimestamp, running>>
       ELSE IF now = lastTimestamp[g]
         THEN LET s == NextSequence(sequence[g])
              IN  IF s = 0 /\ KeepWaiting(now, lastTimestamp[g])
                    THEN /\ sequence' = [sequence EXCEPT ![g] = s]
                         /\ running' = g
                         /\ outcome' = [NoOutcome EXCEPT !.op = "generate",
                                            !.gen = g, !.kind = "spinning",
                                            !.read = now, !.now = now,
                                            !.waited = TRUE]
                         /\ UNCHANGED lastTimestamp
                  ELSE Return(g, now, now, s, FALSE)
       ELSE Return(g, now, now, 0, FALSE)
    /\ UNCHANGED <<created, epoch, datacenterId, workerId, decoded>>

\* A call of the generator, with `now` the value of its first Date.now().
generate(g, now) ==
    /\ Idle
    /\ created[g]
    /\ IF ClockMovedBackwards(now, lastTimestamp[g])
         THEN /\ outcome' = [NoOutcome EXCEPT !.op = "generate", !.gen = g,
                                 !.kind = "throw", !.error = ClockError,
                                 !.read = now, !.now = now]
              /\ UNCHANGED <<lastTimestamp, sequence, running>>
       ELSE IF now = lastTimestamp[g]
         THEN LET s == NextSequence(sequence[g])
              IN  IF s = 0 /\ KeepWaiting(now, lastTimestamp[g])
                    THEN /\ sequence' = [sequence EXCEPT ![g] = s]
                         /\ running' = g
                         /\ outcome' = [NoOutcome EXCEPT !.op = "generate",
                                            !.gen = g, !.kind = "spinning",
                                            !.read = now, !.now = now,
                                            !.waited = TRUE]
                         /\ UNCHANGED lastTimestamp
                  ELSE Return(g, now, now, s, FALSE)
       ELSE Return(g, now, now, 0, FALSE)
    /\ UNCHANGED <<created, epoch, datacenterId, workerId, decoded>>

\* Mutant: the wait loop checks each reading for a clock regression.
spin_Checked(g, now) ==
    /\ running = g
    /\ IF ClockMovedBackwards(now, lastTimestamp[g])
         THEN /\ running' = 0
              /\ outcome' = [outcome EXCEPT !.kind = "throw", !.error = ClockError,
                                            !.now = now]
              /\ UNCHANGED <<lastTimestamp, sequence>>
       ELSE IF KeepWaiting(now, lastTimestamp[g])
         THEN /\ outcome' = [outcome EXCEPT !.now = now]
              /\ UNCHANGED <<lastTimestamp, sequence, running>>
       ELSE Return(g, outcome.read, now, sequence[g], TRUE)
    /\ UNCHANGED <<created, epoch, datacenterId, workerId, decoded>>

\* One iteration of the spin-wait (lines 71-73), `now` the value Date.now()
\* returns in it.
spin(g, now) ==
    /\ running = g
    /\ IF KeepWaiting(now, lastTimestamp[g])
         THEN /\ outcome' = [outcome EXCEPT !.now = now]
              /\ UNCHANGED <<lastTimestamp, sequence, running>>
       ELSE Return(g, outcome.read, now, sequence[g], TRUE)
    /\ UNCHANGED <<created, epoch, datacenterId, workerId, decoded>>

\* --------------------------------------------------------- parseSnowflakeId
\* Mutant: the datacenter id is read at the worker's shift.
Parsed_DatacenterShift(id, e) ==
    LET idBigInt == BigIntOfString(id)
        timestamp == Shr(idBigInt, TIMESTAMP_SHIFT) + e
    IN  [timestamp |-> timestamp,
         datacenterId |-> BitAnd(Shr(idBigInt, WORKER_SHIFT), MAX_DATACENTER_ID),
         workerId |-> BitAnd(Shr(idBigInt, WORKER_SHIFT), MAX_WORKER_ID),
         sequence |-> BitAnd(idBigInt, MAX_SEQUENCE),
         date |-> timestamp]

\* Lines 106-122.  Number() of a BigInt below 2^53 is that integer; the Date
\* is represented by its time value.
Parsed(id, e) ==
    LET idBigInt == BigIntOfString(id)
        timestamp == Shr(idBigInt, TIMESTAMP_SHIFT) + e
    IN  [timestamp |-> timestamp,
         datacenterId |-> BitAnd(Shr(idBigInt, DATACENTER_SHIFT), MAX_DATACENTER_ID),
         workerId |-> BitAnd(Shr(idBigInt, WORKER_SHIFT), MAX_WORKER_ID),
         sequence |-> BitAnd(idBigInt, MAX_SEQUENCE),
         date |-> timestamp]

\* Mutant: the epoch argument is ignored.
EpochArgument_Ignored(args) == DEFAULT_EPOCH

\* The default parameter `epoch = DEFAULT_EPOCH` of the three decoders.
EpochArgument(args) == IF args = <<>> THEN DEFAULT_EPOCH ELSE args[1]

\* A call parseSnowflakeId(id, e); `args` is <<>> when the epoch argument is
\* left out and <<e>> when it is passed.
parseSnowflakeId(id, args) ==
    LET e == EpochArgument(args)
        d == [NoDecoded EXCEPT !.fn = "parseSnowflakeId", !.id = id,
                               !.args = args, !.epoch = e]
    IN  /\ Idle
        /\ IF BigIntParses(id)
             THEN LET p == Parsed(id, e)
                  IN  decoded' = [d EXCEPT !.kind = "components",
                                      !.timestamp = p.timestamp,
                                      !.datacenterId = p.datacenterId,
                                      !.workerId = p.workerId,
                                      !.sequence = p.sequence,
                                      !.date = p.date]
           ELSE decoded' = [d EXCEPT !.kind = "throw", !.error = SyntaxError]
        /\ UNCHANGED <<gen, running, outcome>>

\* -------------------------------- getSnowflakeTimestamp, snowflakeToDate
\* Mutants: the timestamp is read at the datacenter's shift; the epoch is
\* not added.
Timestamp_DatacenterShift(id, e) == Shr(BigIntOfString(id), DATACENTER_SHIFT) + e
Timestamp_NoEpoch(id, e) == Shr(BigIntOfString(id), TIMESTAMP_SHIFT)

\* Lines 128-129.
Timestamp(id, e) == Shr(BigIntOfString(id), TIMESTAMP_SHIFT) + e

\* A call getSnowflakeTimestamp(id, e).
getSnowflakeTimestamp(id, args) ==
    LET e == EpochArgument(args)
        d == [NoDecoded EXCEPT !.fn = "getSnowflakeTimestamp", !.id = id,
                               !.args = args, !.epoch = e]
    IN  /\ Idle
        /\ IF BigIntParses(id)
             THEN decoded' = [d EXCEPT !.kind = "number",
                                       !.timestamp = Timestamp(id, e)]
           ELSE decoded' = [d EXCEPT !.kind = "throw", !.error = SyntaxError]
        /\ UNCHANGED <<gen, running, outcome>>

\* A call snowflakeToDate(id, e): the Date of getSnowflakeTimestamp(id, e),
\* represented by its time value.
snowflakeToDate(id, args) ==
    LET e == EpochArgument(args)
        d == [NoDecoded EXCEPT !.fn = "snowflakeToDate", !.id = id,
                               !.args = args, !.epoch = e]
    IN  /\ Idle
        /\ IF BigIntParses(id)
             THEN decoded' = [d EXCEPT !.kind = "date", !.date = Timestamp(id, e)]
           ELSE decoded' = [d EXCEPT !.kind = "throw", !.error = SyntaxError]
        /\ UNCHANGED <<gen, running, outcome>>

\* ------------------------------------------------------- JavaScript values
\* A property of a configuration object holds <<n>>, the number n, or <<>>,
\* undefined; Number.parseInt returns <<n>> or <<>>, NaN.
Undefined == <<>>
NaN == <<>>

\* The object whose properties are the fields of c.
Object(c) == [f \in DOMAIN c |-> <<c[f]>>]

\* What destructuring with defaults sees of an object: a property that is
\* undefined counts as a missing one.
Defined(config) ==
    [f \in {x \in DOMAIN config : config[x] # Undefined} |-> config[f][1]]

\* Mutant: the properties of the first object win.
Spread_Reversed(a, b) ==
    [f \in DOMAIN a \cup DOMAIN b |-> IF f \in DOMAIN a THEN a[f] ELSE b[f]]

\* { ...a, ...b }: every own property of a and of b, those of b winning, a
\* property of b that is undefined included.
Spread(a, b) ==
    [f \in DOMAIN a \cup DOMAIN b |-> IF f \in DOMAIN b THEN b[f] ELSE a[f]]

\* Mutant: the text "0" counts as no value.
Falsy_Zero(store, key) == key \notin DOMAIN store \/ store[key] \in {<<>>, <<"0">>}

\* !value for store[key]: undefined, null and the empty string are falsy.
Falsy(store, key) == key \notin DOMAIN store \/ store[key] = <<>>

\* Number.parseInt(text, 10): leading white space is skipped, a sign is
\* read, and the longest run of decimal digits that follows is the value;
\* NaN when there is no digit.
RECURSIVE DigitPrefix(_)
DigitPrefix(s) ==
    IF s # <<>> /\ IsDigit(s[1]) THEN <<s[1]>> \o DigitPrefix(Tail(s)) ELSE <<>>

ParseInt(text) ==
    LET t == TrimLeft(text)
        signed == t # <<>> /\ t[1] \in {"+", "-"}
        digits == DigitPrefix(IF signed THEN Tail(t) ELSE t)
    IN  IF digits = <<>> THEN NaN
        ELSE IF signed /\ t[1] = "-" THEN <<-DigitsValue(digits)>>
        ELSE <<DigitsValue(digits)>>

\* Number.prototype.toString() of an integer.
NumberToString(n) == BigIntToString(n)

\* ------------------------------------------------- environment variables
ENV_VARS == [EPOCH |-> "SNOWFLAKE_EPOCH",
             DATACENTER_ID |-> "SNOWFLAKE_DATACENTER_ID",
             WORKER_ID |-> "SNOWFLAKE_WORKER_ID"]

EnvMessage(name, text, min, max) ==
    [subject |-> "Environment variable", name |-> name, text |-> text,
     min |-> min, max |-> max]

\* parseEnvInt(process.env[name], min, max, name): what it returns, or what
\* it throws.
parseEnvInt(name, min, max) ==
    IF Falsy(env, name)
      THEN [throws |-> FALSE, value |-> Undefined, error |-> NoMessage]
    ELSE LET parsed == ParseInt(env[name])
         IN  IF parsed = NaN
               THEN [throws |-> TRUE, value |-> Undefined,
                     error |-> EnvMessage(name, "must be a valid integer", 0, 0)]
             ELSE IF parsed[1] < min \/ parsed[1] > max
               THEN [throws |-> TRUE, value |-> Undefined,
                     error |-> EnvMessage(name, "must be between", min, max)]
             ELSE [throws |-> FALSE, value |-> parsed, error |-> NoMessage]

\* loadConfigFromEnv(): the configuration it returns, or what it throws.
loadConfigFromEnv ==
    LET epochSet == ~Falsy(env, ENV_VARS.EPOCH)
        e == IF epochSet THEN ParseInt(env[ENV_VARS.EPOCH]) ELSE Undefined
        d == parseEnvInt(ENV_VARS.DATACENTER_ID, 0, 31)
        w == parseEnvInt(ENV_VARS.WORKER_ID, 0, 31)
        config == Spread(IF epochSet THEN [epoch |-> e] ELSE NoConfig,
                         [datacenterId |-> d.value, workerId |-> w.value])
    IN  IF epochSet /\ e = NaN
          THEN [throws |-> TRUE, config |-> NoConfig,
                error |-> EnvMessage(ENV_VARS.EPOCH,
                                     "must be a valid integer timestamp", 0, 0)]
        ELSE IF d.throws THEN [throws |-> TRUE, config |-> NoConfig, error |-> d.error]
        ELSE IF w.throws THEN [throws |-> TRUE, config |-> NoConfig, error |-> w.error]
        ELSE [throws |-> FALSE, config |-> config, error |-> NoMessage]

\* The record of an adapter call.
Called(fn) == [NoAdapter EXCEPT !.fn = fn]

\* A call loadConfigFromEnv().
LoadEnv ==
    LET l == loadConfigFromEnv
    IN  /\ Idle
        /\ adapter' = [Called("loadConfigFromEnv") EXCEPT
                          !.kind = IF l.throws THEN "throw" ELSE "config",
                          !.loaded = l.config, !.error = l.error]
        /\ UNCHANGED <<gen, running, outcome, decoded, env, browser, localStorage>>

\* A call createSnowflakeFromEnv(overrides) that builds generator g.
createSnowflakeFromEnv(g, overrides) ==
    LET envConfig == loadConfigFromEnv
        finalConfig == Spread(envConfig.config, overrides)
        a == [Called("createSnowflakeFromEnv") EXCEPT !.arg = overrides]
    IN  IF envConfig.throws
          THEN /\ Idle
               /\ ~created[g]
               /\ adapter' = [a EXCEPT !.kind = "throw", !.error = envConfig.error]
               /\ UNCHANGED <<gen, running, outcome, decoded, env, browser, localStorage>>
        ELSE /\ createSnowflake(g, Defined(finalConfig))
             /\ adapter' = [a EXCEPT !.kind = outcome'.kind,
                                     !.loaded = envConfig.config,
                                     !.final = finalConfig]
             /\ UNCHANGED <<env, browser, localStorage>>

\* ------------------------------------------------------------ localStorage
BROWSER_CONFIG_KEYS == [EPOCH |-> "snowflake.epoch",
                        DATACENTER_ID |-> "snowflake.datacenterId",
                        WORKER_ID |-> "snowflake.workerId"]

StorageMessage(key, text, min, max) ==
    [subject |-> "localStorage value for", name |-> key, text |-> text,
     min |-> min, max |-> max]

\* parseLocalStorageInt(key, min, max): what it returns and what it warns.
parseLocalStorageInt(key, min, max) ==
    IF ~localStorage.defined \/ Falsy(localStorage.items, key)
      THEN [value |-> Undefined, warnings |-> <<>>]
    ELSE LET parsed == ParseInt(localStorage.items[key])
         IN  IF parsed = NaN
               THEN [value |-> Undefined,
                     warnings |-> <<StorageMessage(key, "must be a valid integer", 0, 0)>>]
             ELSE IF parsed[1] < min \/ parsed[1] > max
               THEN [value |-> Undefined,
                     warnings |-> <<StorageMessage(key, "must be between", min, max)>>]
             ELSE [value |-> parsed, warnings |-> <<>>]

\* Mutant: without localStorage the two ids are returned as undefined.
loadConfigFromStorage_Undefined ==
    IF ~localStorage.defined
      THEN [config |-> [datacenterId |-> Undefined, workerId |-> Undefined],
            warnings |-> <<>>]
    ELSE LET epochSet == ~Falsy(localStorage.items, BROWSER_CONFIG_KEYS.EPOCH)
             e == IF epochSet THEN ParseInt(localStorage.items[BROWSER_CONFIG_KEYS.EPOCH])
                  ELSE Undefined
             d == parseLocalStorageInt(BROWSER_CONFIG_KEYS.DATACENTER_ID, 0, 31)
             w == parseLocalStorageInt(BROWSER_CONFIG_KEYS.WORKER_ID, 0, 31)
         IN  [config |->
                 Spread(IF epochSet /\ e # NaN THEN [epoch |-> e] ELSE NoConfig,
                        [datacenterId |-> d.value, workerId |-> w.value]),
              warnings |->
                 (IF epochSet /\ e = NaN
                    THEN <<StorageMessage(BROWSER_CONFIG_KEYS.EPOCH,
                                          "must be a valid integer timestamp", 0, 0)>>
                  ELSE <<>>) \o d.warnings \o w.warnings]

\* loadConfigFromStorage(): the configuration it returns and what it warns.
loadConfigFromStorage ==
    IF ~localStorage.defined THEN [config |-> NoConfig, warnings |-> <<>>]
    ELSE LET epochSet == ~Falsy(localStorage.items, BROWSER_CONFIG_KEYS.EPOCH)
             e == IF epochSet THEN ParseInt(localStorage.items[BROWSER_CONFIG_KEYS.EPOCH])
                  ELSE Undefined
             d == parseLocalStorageInt(BROWSER_CONFIG_KEYS.DATACENTER_ID, 0, 31)
             w == parseLocalStorageInt(BROWSER_CONFIG_KEYS.WORKER_ID, 0, 31)
         IN  [config |->
                 Spread(IF epochSet /\ e # NaN THEN [epoch |-> e] ELSE NoConfig,
                        [datacenterId |-> d.value, workerId |-> w.value]),
              warnings |->
                 (IF epochSet /\ e = NaN
                    THEN <<StorageMessage(BROWSER_CONFIG_KEYS.EPOCH,
                                          "must be a valid integer timestamp", 0, 0)>>
                  ELSE <<>>) \o d.warnings \o w.warnings]

\* A call loadConfigFromStorage().
LoadStorage ==
    LET l == loadConfigFromStorage
    IN  /\ Idle
        /\ adapter' = [Called("loadConfigFromStorage") EXCEPT
                          !.kind = "config", !.loaded = l.config,
                          !.warnings = l.warnings,
                          !.saved = IF adapter.fn = "saveConfigToStorage"
                                    THEN <<adapter.arg>> ELSE <<>>]
        /\ UNCHANGED <<gen, running, outcome, decoded, env, browser, localStorage>>

\* localStorage.setItem(key, text).
SetItem(items, key, text) ==
    [k \in DOMAIN items \cup {key} |-> IF k = key THEN text ELSE items[k]]

\* Mutant: a field that is undefined removes the stored item.
SaveField_Clearing(items, config, field, key) ==
    IF field \in DOMAIN config /\ config[field] # Undefined
      THEN SetItem(items, key, NumberToString(config[field][1]))
    ELSE [k \in DOMAIN items \ {key} |-> items[k]]

\* Lines 266-274: a field that is not undefined is stored as its numeral.
SaveField(items, config, field, key) ==
    IF field \in DOMAIN config /\ config[field] # Undefined
      THEN SetItem(items, key, NumberToString(config[field][1]))
    ELSE items

\* Line 262: the warning of saveConfigToStorage without localStorage.
StorageUnavailable ==
    [subject |-> "localStorage", name |-> "", text |-> "is not available",
     min |-> 0, max |-> 0]

\* Lines 266-274: the items after the three fields are saved.
SavedItems(items, config) ==
    SaveField(SaveField(SaveField(items, config, "epoch", BROWSER_CONFIG_KEYS.EPOCH),
                        config, "datacenterId", BROWSER_CONFIG_KEYS.DATACENTER_ID),
              config, "workerId", BROWSER_CONFIG_KEYS.WORKER_ID)

\* A call saveConfigToStorage(config).
saveConfigToStorage(config) ==
    LET a == [Called("saveConfigToStorage") EXCEPT !.kind = "void", !.arg = config]
    IN  /\ Idle
        /\ IF ~localStorage.defined
             THEN /\ adapter' = [a EXCEPT !.warnings = <<StorageUnavailable>>]
                  /\ UNCHANGED localStorage
           ELSE /\ localStorage' = [localStorage EXCEPT !.items = SavedItems(@, config)]
                /\ adapter' = a
        /\ UNCHANGED <<gen, running, outcome, decoded, env, browser>>

\* Mutant: removeItem leaves the item where it is.
RemoveItem_Keeping(items, key) == items

\* localStorage.removeItem(key).
RemoveItem(items, key) == [k \in DOMAIN items \ {key} |-> items[k]]

\* A call clearStoredConfig().
clearStoredConfig ==
    /\ Idle
    /\ IF ~localStorage.defined
         THEN UNCHANGED localStorage
       ELSE localStorage' = [localStorage EXCEPT !.items =
               RemoveItem(RemoveItem(RemoveItem(@, BROWSER_CONFIG_KEYS.EPOCH),
                                     BROWSER_CONFIG_KEYS.DATACENTER_ID),
                          BROWSER_CONFIG_KEYS.WORKER_ID)]
    /\ adapter' = [Called("clearStoredConfig") EXCEPT
                      !.kind = "void",
                      !.saved = IF adapter.fn = "saveConfigToStorage"
                                THEN <<adapter.arg>> ELSE <<>>]
    /\ UNCHANGED <<gen, running, outcome, decoded, env, browser>>

\* ----------------------------------------------------- browser fingerprint
\* The characters U+0020 to U+005F and U+0061 to U+007E, in the order of
\* their code units.
Printable ==
    <<" ", "!", "\"", "#", "$", "%", "&", "'", "(", ")", "*", "+",
      ",", "-", ".", "/", "0", "1", "2", "3", "4", "5", "6", "7",
      "8", "9", ":", ";", "<", "=", ">", "?", "@", "A", "B", "C",
      "D", "E", "F", "G", "H", "I", "J", "K", "L", "M", "N", "O",
      "P", "Q", "R", "S", "T", "U", "V", "W", "X", "Y", "Z", "[",
      "\\", "]", "^", "_">>
Lowercase ==
    <<"a", "b", "c", "d", "e", "f", "g", "h", "i", "j", "k", "l",
      "m", "n", "o", "p", "q", "r", "s", "t", "u", "v", "w", "x",
      "y", "z", "{", "|", "}", "~">>

\* String.prototype.charCodeAt for one character.
CharCodeAt ==
    [c \in { Printable[i] : i \in DOMAIN Printable }
              \cup { Lowercase[i] : i \in DOMAIN Lowercase } |->
        IF \E i \in DOMAIN Printable : Printable[i] = c
          THEN 31 + CHOOSE i \in DOMAIN Printable : Printable[i] = c
        ELSE 96 + CHOOSE i \in DOMAIN Lowercase : Lowercase[i] = c]

\* hash = (hash << 5) - hash + char; hash = hash & hash: the signed 32-bit
\* integer that 31 * hash + char wraps to, computed on 16-bit halves.
HashStep(hash, char) ==
    LET low == (hash % 65536) * 31 + char
        high == Shr(hash, 16) * 31 + Shr(low, 16)
    IN  (((high + 32768) % 65536) - 32768) * 65536 + (low % 65536)

\* The loop over the characters of a string, from `hash` on.  (The test
\* `next \in Int` has TLC compute each hash before the loop goes on.)
RECURSIVE HashFrom(_, _)
HashFrom(hash, text) ==
    IF text = <<>> THEN hash
    ELSE LET next == HashStep(hash, CharCodeAt[Head(text)])
         IN  IF next \in Int THEN HashFrom(next, Tail(text)) ELSE next

\* Mutant: the sign of the hash is kept (the remainder of a negative number is
\* negative or zero).
AbsRemainder_Signed(hash, n) ==
    IF hash >= 0 THEN hash % n ELSE -((((-(hash + 1)) % n) + 1) % n)

\* Math.abs(hash) % n, for a signed 32-bit hash.
AbsRemainder(hash, n) ==
    IF hash >= 0 THEN hash % n ELSE (((-(hash + 1)) % n) + 1) % n

\* value || "" for a string property; value?.toString() || "" for a number
\* property.  <<>> stands for undefined and for null, which || and ?. treat
\* alike.
OrEmpty(value) == IF value = Undefined THEN <<>> ELSE value[1]
ToStringOrEmpty(value) ==
    IF value = Undefined THEN <<>> ELSE NumberToString(value[1])

\* Array.prototype.join("|").
RECURSIVE Join(_)
Join(parts) ==
    IF parts = <<>> THEN <<>>
    ELSE IF Len(parts) = 1 THEN parts[1]
    ELSE parts[1] \o <<"|">> \o Join(Tail(parts))

\* Math.random() is r / RandomSteps for some r in 0..RandomSteps - 1.
RandomSteps == 2

\* Mutant: the characteristics are never used.
NoCharacteristics_Always == TRUE

\* Line 157: !navigator || !screen.
NoCharacteristics == browser.navigator = Undefined \/ browser.screen = Undefined

\* What the calls of Math.random() in generateBrowserWorkerId() can return:
\* there is one call where the characteristics are missing, and none where
\* they are there (0 then stands for no call).
Randoms == IF NoCharacteristics THEN 0..(RandomSteps - 1) ELSE {0}

\* generateBrowserWorkerId(), r / RandomSteps being what a call of
\* Math.random() returns in it.
generateBrowserWorkerId(r) ==
    IF NoCharacteristics THEN (r * 32) \div RandomSteps
    ELSE LET navigator == browser.navigator[1]
             screen == browser.screen[1]
             characteristics ==
                 Join(<<OrEmpty(navigator.userAgent),
                        OrEmpty(navigator.language),
                        ToStringOrEmpty(screen.width),
                        ToStringOrEmpty(screen.height),
                        ToStringOrEmpty(screen.colorDepth),
                        ToStringOrEmpty(navigator.hardwareConcurrency)>>)
         IN  AbsRemainder(HashFrom(0, characteristics), 32)

generateBrowserDatacenterId ==
    AbsRemainder(HashFrom(0, browser.timeZone), 32)

generateBrowserConfig(r) ==
    [datacenterId |-> <<generateBrowserDatacenterId>>,
     workerId |-> <<generateBrowserWorkerId(r)>>]

\* A call generateBrowserConfig().
GenerateBrowser(r) ==
    /\ Idle
    /\ adapter' = [Called("generateBrowserConfig") EXCEPT
                      !.kind = "config", !.browser = generateBrowserConfig(r),
                      !.earlier = IF adapter.fn = "generateBrowserConfig"
                                  THEN <<adapter.browser>> ELSE <<>>]
    /\ UNCHANGED <<gen, running, outcome, decoded, env, browser, localStorage>>

\* Mutant: the configuration is saved unless the caller says otherwise.
SaveOption_DefaultTrue(options) == Default(options, "save", TRUE)

\* Line 322: `save = false`.
SaveOption(options) == Default(options, "save", FALSE)

\* A call initializeBrowserConfig(options); options has any of the
\* properties save and config.
initializeBrowserConfig(options, r) ==
    LET save == SaveOption(options)
        userConfig == Default(options, "config", NoConfig)
        browserConfig == generateBrowserConfig(r)
        finalConfig == Spread(browserConfig, userConfig)
        a == [Called("initializeBrowserConfig") EXCEPT
                 !.kind = "config", !.arg = options,
                 !.browser = browserConfig, !.final = finalConfig]
    IN  /\ Idle
        /\ IF save /\ localStorage.defined
             THEN localStorage' = [localStorage EXCEPT !.items =
                                      SavedItems(@, finalConfig)]
           ELSE UNCHANGED localStorage
        /\ adapter' = IF save /\ ~localStorage.defined
                        THEN [a EXCEPT !.warnings = <<StorageUnavailable>>]
                      ELSE a
        /\ UNCHANGED <<gen, running, outcome, decoded, env, browser>>

\* A call createSnowflakeFromStorage(overrides) that builds generator g;
\* browserConfig is what generateBrowserConfig() returns in it.
createSnowflakeFromStorage(g, overrides, browserConfig) ==
    LET storageConfig == loadConfigFromStorage
        finalConfig == Spread(Spread(browserConfig, storageConfig.config), overrides)
    IN  /\ createSnowflake(g, Defined(finalConfig))
        /\ adapter' = [Called("createSnowflakeFromStorage") EXCEPT
                          !.kind = outcome'.kind, !.arg = overrides,
                          !.loaded = storageConfig.config,
                          !.browser = browserConfig, !.final = finalConfig,
                          !.warnings = storageConfig.warnings]
        /\ UNCHANGED <<env, browser, localStorage>>

\* ------------------------------------------------------ one-shot generation
\* Mutant: the new closure takes the current reading for its lastTimestamp.
FirstCall_SameTick(fn, config, now) ==
    LET e == Default(config, "epoch", DEFAULT_EPOCH)
        d == Default(config, "datacenterId", 0)
        w == Default(config, "workerId", 0)
        o == [NoOutcome EXCEPT !.op = fn, !.config = config]
        last == now
        s == IF now = last THEN NextSequence(0) ELSE 0
    IN  IF DatacenterIdInvalid(d) THEN [o EXCEPT !.kind = "throw", !.error = DatacenterError]
        ELSE IF WorkerIdInvalid(w) THEN [o EXCEPT !.kind = "throw", !.error = WorkerError]
        ELSE IF ClockMovedBackwards(now, last)
          THEN [o EXCEPT !.kind = "throw", !.error = ClockError,
                         !.read = now, !.now = now]
        ELSE [o EXCEPT !.kind = "id",
                       !.id = BigIntToString(EncodeId(now, e, d, w, s)),
                       !.read = now, !.now = now]

\* createSnowflake(config)(): the validation of createSnowflake, then the one
\* call of the closure it returned, which finds lastTimestamp -1 and
\* sequence 0; `now` is the call's Date.now().  (After sequence 0 the next
\* sequence is 1, so this call never waits.)
FirstCall(fn, config, now) ==
    LET e == Default(config, "epoch", DEFAULT_EPOCH)
        d == Default(config, "datacenterId", 0)
        w == Default(config, "workerId", 0)
        o == [NoOutcome EXCEPT !.op = fn, !.config = config]
        last == -1
        s == IF now = last THEN NextSequence(0) ELSE 0
    IN  IF DatacenterIdInvalid(d) THEN [o EXCEPT !.kind = "throw", !.error = DatacenterError]
        ELSE IF WorkerIdInvalid(w) THEN [o EXCEPT !.kind = "throw", !.error = WorkerError]
        ELSE IF ClockMovedBackwards(now, last)
          THEN [o EXCEPT !.kind = "throw", !.error = ClockError,
                         !.read = now, !.now = now]
        ELSE [o EXCEPT !.kind = "id",
                       !.id = BigIntToString(EncodeId(now, e, d, w, s)),
                       !.read = now, !.now = now]

\* A call generateSnowflakeId(config).  The generator it builds is local to
\* the call.
generateSnowflakeId(config, now) ==
    /\ Idle
    /\ outcome' = FirstCall("generateSnowflakeId", config, now)
    /\ UNCHANGED <<gen, running, decoded, io>>

\* A call generateFromEnv(overrides).
generateFromEnv(overrides, now) ==
    LET envConfig == loadConfigFromEnv
        finalConfig == Spread(envConfig.config, overrides)
        a == [Called("generateFromEnv") EXCEPT !.arg = overrides]
    IN  /\ Idle
        /\ IF envConfig.throws
             THEN /\ outcome' = [NoOutcome EXCEPT !.op = "generateFromEnv",
                                                  !.kind = "throw"]
                  /\ adapter' = [a EXCEPT !.kind = "throw", !.error = envConfig.error]
           ELSE /\ outcome' = FirstCall("generateFromEnv", Defined(finalConfig), now)
                /\ adapter' = [a EXCEPT !.kind = outcome'.kind,
                                        !.loaded = envConfig.config,
                                        !.final = finalConfig]
        /\ UNCHANGED <<gen, running, decoded, env, browser, localStorage>>

\* A call generateFromStorage(overrides), r / RandomSteps being what
\* Math.random() returns in generateBrowserConfig().
generateFromStorage(overrides, now, r) ==
    LET storageConfig == loadConfigFromStorage
        browserConfig == generateBrowserConfig(r)
        finalConfig == Spread(Spread(browserConfig, storageConfig.config), overrides)
    IN  /\ Idle
        /\ outcome' = FirstCall("generateFromStorage", Defined(finalConfig), now)
        /\ adapter' = [Called("generateFromStorage") EXCEPT
                          !.kind = outcome'.kind, !.arg = overrides,
                          !.loaded = storageConfig.config,
                          !.browser = browserConfig, !.final = finalConfig,
                          !.warnings = storageConfig.warnings]
        /\ UNCHANGED <<gen, running, decoded, env, browser, localStorage>>

\* ----------------------------------------------------------- history ghosts
\* The largest id each generator returned before its latest one.
Track ==
    IF outcome'.kind = "id"
      THEN LET g == outcome'.gen
           IN  /\ lastId' = [lastId EXCEPT ![g] = <<BigIntOfString(outcome'.id)>>]
               /\ maxEarlier' = [maxEarlier EXCEPT ![g] =
                      IF lastId[g] = <<>> THEN maxEarlier[g]
                      ELSE IF maxEarlier[g] = <<>> THEN lastId[g]
                      ELSE IF maxEarlier[g][1] < lastId[g][1] THEN lastId[g]
                      ELSE maxEarlier[g]]
      ELSE UNCHANGED <<lastId, maxEarlier>>

\* The ids returned, in call order, each with the generator that returned it
\* and the clock reading it was built from.
Record ==
    emitted' = IF outcome'.kind = "id"
               THEN Append(emitted, [gen |-> outcome'.gen, id |-> outcome'.id,
                                     now |-> outcome'.now])
               ELSE emitted

\* ----------------------------------------------------------- specifications
Clock == 0..MaxClock
Epochs == {CustomEpoch}

Configs == ConfigsOver(Epochs, {-1, 0, MAX_DATACENTER_ID, MAX_DATACENTER_ID + 1},
                       {-1, 0, MAX_WORKER_ID, MAX_WORKER_ID + 1})

\* Generators are numbered in the order of their construction.
NextGen(g) == \A h \in Gens : h < g => created[h]

Create ==
    \E g \in Gens, config \in Configs :
        NextGen(g) /\ createSnowflake(g, config) /\ UNCHANGED <<ghost, io>>
Generate ==
    \E g \in Gens, now \in Clock :
        Len(emitted) < MaxEmit /\ generate(g, now) /\ Track /\ Record /\ UNCHANGED <<caller, io>>

\* Two generators, every configuration, the first MaxEmit ids in call order.
\* (No generator can exhaust its sequence within MaxEmit calls, so no call
\* of this specification enters the spin-wait.)
Next == Create \/ Generate

Spec == Init /\ [][Next]_vars

\* One generator with a custom or a default configuration, any number of
\* calls: every sequence number, the wrap and the spin-wait.
SeqConfigs == {[epoch |-> CustomEpoch, datacenterId |-> 5, workerId |-> 10],
               [datacenterId |-> MAX_DATACENTER_ID]}

CreateSeq ==
    \E config \in SeqConfigs : createSnowflake(1, config) /\ UNCHANGED <<ghost, io>>
GenerateSeq ==
    \E now \in Clock : generate(1, now) /\ Track /\ UNCHANGED <<emitted, caller, io>>
SpinSeq ==
    \E now \in Clock : spin(1, now) /\ Track /\ UNCHANGED <<emitted, caller, io>>

NextSeq == CreateSeq \/ GenerateSeq \/ SpinSeq

SpecSeq == Init /\ [][NextSeq]_vars

\* An iteration of the spin-wait in which Date.now() is later than
\* lastTimestamp.  The loop keeps running (nothing can interrupt it), so the
\* call reads the clock again and again; that one of its readings is later
\* is the progress of the wall clock.
SpinLater ==
    \E now \in Clock :
        now > lastTimestamp[1] /\ spin(1, now) /\ Track /\ UNCHANGED <<emitted, caller, io>>

SpecSeqFair == SpecSeq /\ WF_vars(SpinLater)

\* One generator whose caller times some of its calls, as
\*     before = Date.now(); id = generator(); after = Date.now();
\* the calls timed being the generator's first one and those made with one of
\* the sampled sequences.
TimedSequences == {1, MAX_SEQUENCE}

CreateTimed ==
    createSnowflake(1, [epoch |-> CustomEpoch, datacenterId |-> 5, workerId |-> 10])
        /\ UNCHANGED <<ghost, io>>
GenerateUntimed ==
    \E now \in Clock :
        /\ generate(1, now) /\ Track
        /\ caller' = NoCaller
        /\ UNCHANGED <<emitted, io>>
GenerateTimed ==
    \E before \in Clock, now \in Clock :
        /\ lastTimestamp[1] = -1 \/ sequence[1] \in TimedSequences
        /\ generate(1, now) /\ Track
        /\ caller' = [NoCaller EXCEPT !.before = <<before>>]
        /\ UNCHANGED <<emitted, io>>
SpinTimed ==
    \E now \in Clock : spin(1, now) /\ Track /\ UNCHANGED <<emitted, caller, io>>
ReadAfter ==
    \E after \in Clock :
        /\ Idle /\ outcome.op = "generate" /\ outcome.kind = "id"
        /\ caller.before # <<>> /\ caller.after = <<>>
        /\ caller' = [caller EXCEPT !.after = <<after>>]
        /\ UNCHANGED <<gen, running, outcome, decoded, lastId, maxEarlier,
                       emitted, io>>

NextTimed ==
    CreateTimed \/ GenerateUntimed \/ GenerateTimed \/ SpinTimed \/ ReadAfter

SpecTimed == Init /\ [][NextTimed]_vars

\* The codec alone: a new generator of any sampled configuration builds the
\* id of a sampled (timestamp, sequence) pair, and the decoder parses it.
BitSamples(n) == {0, Shl(1, n) - 1} \cup { Shl(1, k) : k \in 0..(n - 1) }

CodecConfigs == ConfigsOver(Epochs, BitSamples(DATACENTER_BITS), BitSamples(WORKER_BITS))

CreateCodec ==
    \E config \in CodecConfigs : createSnowflake(1, config) /\ UNCHANGED <<ghost, io>>
Encode ==
    \E t \in Clock, s \in BitSamples(SEQUENCE_BITS) :
        /\ Idle /\ created[1] /\ outcome.kind = "generator"
        /\ Return(1, t, t, s, FALSE)
        /\ UNCHANGED <<created, epoch, datacenterId, workerId, decoded, ghost, io>>
\* The decoders are called without an epoch, with the default epoch and with
\* the custom one.
DecodeArgs == {<<>>} \cup { <<e>> : e \in {DEFAULT_EPOCH} \cup Epochs }

Decode ==
    \E args \in DecodeArgs :
        /\ outcome.kind = "id"
        /\ parseSnowflakeId(outcome.id, args)
        /\ UNCHANGED <<ghost, io>>
DecodeTimestamp ==
    \E args \in DecodeArgs :
        /\ outcome.kind = "id"
        /\ getSnowflakeTimestamp(outcome.id, args)
        /\ UNCHANGED <<ghost, io>>
DecodeDate ==
    \E args \in DecodeArgs :
        /\ outcome.kind = "id"
        /\ snowflakeToDate(outcome.id, args)
        /\ UNCHANGED <<ghost, io>>

NextCodec == CreateCodec \/ Encode \/ Decode \/ DecodeTimestamp \/ DecodeDate

SpecCodec == Init /\ [][NextCodec]_vars

\* The decoders alone, given strings that no generator returned.
Texts ==
    {<<>>, <<" ">>, <<"x">>, <<"-">>, <<"1", "n">>, <<"1", "2", "a">>,
     <<"1", ".", "5">>, <<"1", "e", "3">>, <<"0", "x">>, <<"0", "x", "1", "F">>,
     <<"0", "b", "1", "0">>, <<"-", "0", "x", "1">>, <<"-", "1">>, <<"+", "7">>,
     <<" ", "4", "2", "\n">>, <<"4", "1", "9", "4", "3", "0", "5">>}

ParseText ==
    \E id \in Texts, args \in DecodeArgs :
        parseSnowflakeId(id, args) /\ UNCHANGED <<ghost, io>>
TimestampText ==
    \E id \in Texts, args \in DecodeArgs :
        getSnowflakeTimestamp(id, args) /\ UNCHANGED <<ghost, io>>
DateText ==
    \E id \in Texts, args \in DecodeArgs :
        snowflakeToDate(id, args) /\ UNCHANGED <<ghost, io>>

NextText == ParseText \/ TimestampText \/ DateText

SpecText == Init /\ [][NextText]_vars

\* The overrides a caller passes to the adapters: any subset of the fields,
\* and a worker id that is out of range.
Overrides ==
    { Object(c) : c \in ConfigsOver(Epochs, {20}, {15})
                           \cup {[workerId |-> MAX_WORKER_ID + 1]} }

\* The text of an environment variable or of a stored item: numerals in and
\* out of range, a numeral followed by something else, no numeral, nothing.
IdTexts == {<<"0">>, <<"3", "1">>, <<"3", "2">>, <<"-", "1">>, <<"5", "x">>,
            <<"x">>, <<>>}
EpochTexts == {NumberToString(DEFAULT_EPOCH), NumberToString(CustomEpoch),
               NumberToString(CustomEpoch) \o <<"x">>, <<"x">>, <<>>}

EnvTexts(name) == IF name = ENV_VARS.EPOCH THEN EpochTexts ELSE IdTexts

\* process.env[name] = text, before the adapter is used.
SetEnv ==
    \E name \in {ENV_VARS.EPOCH, ENV_VARS.DATACENTER_ID, ENV_VARS.WORKER_ID} :
        \E text \in EnvTexts(name) :
            /\ adapter.fn = "none"
            /\ env' = [n \in DOMAIN env \cup {name} |->
                          IF n = name THEN text ELSE env[n]]
            /\ UNCHANGED <<gen, running, outcome, decoded, ghost,
                           browser, localStorage, adapter>>

LoadFromEnv == ~created[1] /\ LoadEnv /\ UNCHANGED ghost
CreateFromEnv ==
    \E overrides \in Overrides :
        createSnowflakeFromEnv(1, overrides) /\ UNCHANGED ghost

NextEnv == SetEnv \/ LoadFromEnv \/ CreateFromEnv

SpecEnv == Init /\ [][NextEnv]_vars

\* What the hashes of generateBrowserWorkerId and generateBrowserDatacenterId
\* (and the random fallback) come to: numbers in 0..31.
BrowserConfigs ==
    {[datacenterId |-> <<7>>, workerId |-> <<0>>],
     [datacenterId |-> <<MAX_DATACENTER_ID>>, workerId |-> <<9>>]}

\* The configurations a caller saves: any subset of the fields, and the
\* complete one with a custom epoch.
SaveConfigs ==
    { Object(c) : c \in ConfigsOver({DEFAULT_EPOCH}, {0}, {0, MAX_WORKER_ID})
                           \cup {[epoch |-> CustomEpoch, datacenterId |-> 5,
                                  workerId |-> 10]} }

WorkerTexts == {<<"0">>, <<"3", "2">>, <<"7", "x">>}

StorageTexts(key) ==
    IF key = BROWSER_CONFIG_KEYS.EPOCH THEN EpochTexts
    ELSE IF key = BROWSER_CONFIG_KEYS.DATACENTER_ID THEN IdTexts
    ELSE WorkerTexts

\* localStorage.setItem(key, text) by the page, before the adapter is used.
StoreItem ==
    \E key \in {BROWSER_CONFIG_KEYS.EPOCH, BROWSER_CONFIG_KEYS.DATACENTER_ID,
                BROWSER_CONFIG_KEYS.WORKER_ID} :
        \E text \in StorageTexts(key) :
            /\ adapter.fn = "none" /\ localStorage.defined
            /\ localStorage' = [localStorage EXCEPT !.items = SetItem(@, key, text)]
            /\ UNCHANGED <<gen, running, outcome, decoded, ghost, env, browser, adapter>>

\* An environment without localStorage.
NoLocalStorage ==
    /\ adapter.fn = "none" /\ localStorage = [defined |-> TRUE, items |-> NoConfig]
    /\ localStorage' = [defined |-> FALSE, items |-> NoConfig]
    /\ UNCHANGED <<gen, running, outcome, decoded, ghost, env, browser, adapter>>

SaveToStorage ==
    \E config \in SaveConfigs :
        ~created[1] /\ saveConfigToStorage(config) /\ UNCHANGED ghost
LoadFromStorage == ~created[1] /\ LoadStorage /\ UNCHANGED ghost
ClearStorage == ~created[1] /\ clearStoredConfig /\ UNCHANGED ghost
CreateFromStorage ==
    \E overrides \in Overrides, browserConfig \in BrowserConfigs :
        createSnowflakeFromStorage(1, overrides, browserConfig) /\ UNCHANGED ghost

NextStorage ==
    \/ StoreItem \/ NoLocalStorage \/ SaveToStorage \/ LoadFromStorage
    \/ ClearStorage \/ CreateFromStorage

SpecStorage == Init /\ [][NextStorage]_vars

\* The browser adapter in sampled environments: navigator and screen
\* missing, with every property undefined or null, and populated (two user
\* agents); two time zones.
NoProperties(names) == [name \in names |-> Undefined]

MozillaAgent == <<"M", "o", "z", "i", "l", "l", "a", "/", "5", ".", "0">>
DifferentAgent ==
    <<"D", "i", "f", "f", "e", "r", "e", "n", "t", " ", "U", "s", "e", "r",
      "A", "g", "e", "n", "t">>
EnglishLanguage == <<"e", "n", "-", "U", "S">>

Navigators ==
    {Undefined,
     <<NoProperties({"userAgent", "language", "hardwareConcurrency"})>>,
     <<[userAgent |-> <<MozillaAgent>>, language |-> <<EnglishLanguage>>,
        hardwareConcurrency |-> <<8>>]>>,
     <<[userAgent |-> <<DifferentAgent>>, language |-> <<EnglishLanguage>>,
        hardwareConcurrency |-> <<8>>]>>}

Screens ==
    {Undefined,
     <<NoProperties({"width", "height", "colorDepth"})>>,
     <<[width |-> <<1920>>, height |-> <<1080>>, colorDepth |-> <<24>>]>>}

TimeZones ==
    {NoBrowser.timeZone,
     <<"A", "m", "e", "r", "i", "c", "a", "/", "N", "e", "w", "_", "Y", "o",
       "r", "k">>}

Browsers == [navigator : Navigators, screen : Screens, timeZone : TimeZones]

\* The page runs in one of the environments.
SetBrowser ==
    \E b \in Browsers :
        /\ adapter.fn = "none" /\ browser = NoBrowser
        /\ browser' = b
        /\ UNCHANGED <<gen, running, outcome, decoded, ghost, env,
                       localStorage, adapter>>

\* The options of initializeBrowserConfig: any of save and config.
UserConfigs ==
    {Object([epoch |-> CustomEpoch, datacenterId |-> 20]), Object([workerId |-> 15])}

InitOptions ==
    {NoConfig} \cup { [save |-> save] : save \in BOOLEAN }
        \cup { [config |-> config] : config \in UserConfigs }
        \cup [save : BOOLEAN, config : UserConfigs]

GenerateBrowserConfig ==
    \E r \in Randoms : GenerateBrowser(r) /\ UNCHANGED ghost
InitializeBrowser ==
    \E options \in InitOptions, r \in Randoms :
        initializeBrowserConfig(options, r) /\ UNCHANGED ghost

NextBrowser ==
    SetBrowser \/ NoLocalStorage \/ GenerateBrowserConfig \/ InitializeBrowser

SpecBrowser == Init /\ [][NextBrowser]_vars

\* The one-shot functions, called one after another in a few environments.
OneShotOps == {"generateSnowflakeId", "generateFromEnv", "generateFromStorage"}

\* The readings of the one-shot calls: the first and the last of the clock.
OneShotClock == {0, MaxClock}

OneShotConfigs ==
    {NoConfig, [datacenterId |-> 20, workerId |-> 15],
     [epoch |-> CustomEpoch, datacenterId |-> MAX_DATACENTER_ID],
     [datacenterId |-> MAX_DATACENTER_ID + 1]}

OneShotOverrides ==
    { Object(c) : c \in {NoConfig, [datacenterId |-> 20, workerId |-> 15],
                         [workerId |-> MAX_WORKER_ID + 1]} }

OneShotEnvs ==
    {[n \in {ENV_VARS.EPOCH, ENV_VARS.DATACENTER_ID} |->
         IF n = ENV_VARS.EPOCH THEN NumberToString(CustomEpoch) ELSE <<"3", "1">>],
     [n \in {ENV_VARS.WORKER_ID} |-> <<"3", "2">>]}

OneShotItems ==
    {[k \in {BROWSER_CONFIG_KEYS.DATACENTER_ID, BROWSER_CONFIG_KEYS.WORKER_ID} |->
         IF k = BROWSER_CONFIG_KEYS.DATACENTER_ID THEN <<"3", "1">> ELSE <<"7", "x">>]}

\* The process and the page are set up before the functions are called.
SetOneShotEnv ==
    \E e \in OneShotEnvs :
        /\ outcome.op = "none" /\ env = NoConfig
        /\ env' = e
        /\ UNCHANGED <<gen, running, outcome, decoded, ghost, browser,
                       localStorage, adapter>>
SetOneShotStorage ==
    \E items \in OneShotItems :
        /\ outcome.op = "none" /\ localStorage = [defined |-> TRUE, items |-> NoConfig]
        /\ localStorage' = [localStorage EXCEPT !.items = items]
        /\ UNCHANGED <<gen, running, outcome, decoded, ghost, env, browser, adapter>>

\* The one-shot call made just before this one, when it returned an id.
Earlier ==
    /\ caller' = [NoCaller EXCEPT !.earlier =
                     IF outcome.op \in OneShotOps /\ outcome.kind = "id"
                       THEN <<outcome>> ELSE <<>>]
    /\ UNCHANGED <<lastId, maxEarlier, emitted>>

GenerateSnowflakeId ==
    \E config \in OneShotConfigs, now \in OneShotClock :
        generateSnowflakeId(config, now) /\ Earlier
GenerateFromEnv ==
    \E overrides \in OneShotOverrides, now \in OneShotClock :
        generateFromEnv(overrides, now) /\ Earlier
GenerateFromStorage ==
    \E overrides \in OneShotOverrides, now \in OneShotClock, r \in Randoms :
        generateFromStorage(overrides, now, r) /\ Earlier

NextOneShot ==
    \/ SetOneShotEnv \/ SetOneShotStorage
    \/ GenerateSnowflakeId \/ GenerateFromEnv \/ GenerateFromStorage

SpecOneShot == Init /\ [][NextOneShot]_vars

\* ------------------------------------------------------------------ claims
\* The generator that made the latest createSnowflake / generate call.
G == outcome.gen

\* C1 (SpecSeq): the id a generator returned last is greater than every id
\* it returned before.  Holding in every reachable state, each id differs
\* from all ids returned before it, so the ids of one generator are pairwise
\* distinct, beyond 4096 calls within one millisecond too.
C1_Uniqueness ==
    \A g \in Gens :
        (lastId[g] # <<>> /\ maxEarlier[g] # <<>>) => lastId[g][1] > maxEarlier[g][1]

\* The 4097th call within one millisecond has returned, out of the spin-wait.
C1_Witness ==
    /\ outcome.kind = "id" /\ outcome.waited
    /\ maxEarlier[G] # <<>>
    /\ BitAnd(maxEarlier[G][1], MAX_SEQUENCE) = MAX_SEQUENCE
    /\ Shr(maxEarlier[G][1], TIMESTAMP_SHIFT) + epoch[G] = outcome.read

\* a <= b for the 64-bit two's-complement patterns of a and b read as
\* unsigned integers (a negative value reads as 2^64 + value).
AsUint64Leq(a, b) == IF (a < 0) = (b < 0) THEN a <= b ELSE a >= 0

\* C2 (Spec): the ids of one generator are non-decreasing in emission order
\* when compared as unsigned 64-bit integers.
C2_Monotonic ==
    \A i, j \in 1..Len(emitted) :
        (i < j /\ emitted[i].gen = emitted[j].gen)
            => AsUint64Leq(BigIntOfString(emitted[i].id), BigIntOfString(emitted[j].id))

C4_ClockRegression ==
    [][\A g \in Gens :
         (Idle /\ outcome' # outcome /\ outcome'.op = "generate" /\ outcome'.gen = g
          /\ outcome'.read < lastTimestamp[g])
            => /\ outcome'.kind = "throw"
               /\ outcome'.error.text = "Clock moved backwards. Refusing to generate id"
               /\ outcome'.id = <<>>]_vars

C4_Witness ==
    /\ outcome.op = "generate" /\ outcome.kind = "throw"
    /\ outcome.read < lastTimestamp[G]
    /\ sequence[G] > 0

\* The number of bits of a non-negative integer.
RECURSIVE BitLength(_)
BitLength(n) == IF n = 0 THEN 0 ELSE 1 + BitLength(n \div 2)

\* C5 (SpecSeq): every id returned encodes a timestamp offset that is
\* non-negative and fits in 41 bits, and is an integer in [0, 2^63).
C5_Range ==
    outcome.kind = "id" =>
        LET offset == lastTimestamp[G] - epoch[G]
            id == BigIntOfString(outcome.id)
        IN  /\ offset >= 0 /\ BitLength(offset) <= TIMESTAMP_BITS
            /\ id >= 0 /\ BitLength(id) <= 63

\* C6 (SpecSeq): a call made with sequence 4095 and the clock at
\* lastTimestamp does not fail: it starts waiting, keeps waiting while the
\* readings are not later than lastTimestamp, and at the first later reading
\* returns the id of that reading with sequence 0.
C6_Exhaustion ==
    [][\A g \in Gens :
         /\ (Idle /\ outcome' # outcome /\ outcome'.op = "generate" /\ outcome'.gen = g
             /\ sequence[g] = 4095 /\ outcome'.read = lastTimestamp[g])
               => outcome'.kind = "spinning" /\ running' = g
         /\ running = g =>
               /\ outcome'.kind # "throw"
               /\ outcome'.now <= lastTimestamp[g] => outcome'.kind = "spinning"
               /\ outcome'.now > lastTimestamp[g] =>
                     /\ outcome'.kind = "id"
                     /\ Parsed(outcome'.id, epoch[g]).timestamp = outcome'.now
                     /\ Parsed(outcome'.id, epoch[g]).sequence = 0
                     /\ lastTimestamp'[g] = outcome'.now /\ sequence'[g] = 0]_vars

C6_Witness ==
    /\ outcome.kind = "id" /\ outcome.waited
    /\ sequence[G] = 0 /\ lastTimestamp[G] > outcome.read

\* C7 (SpecCodec): for a timestamp offset in [0, 2^41), parsing the id the
\* generator built, with the generator's epoch, gives back the datacenter
\* id, the worker id, the sequence and the timestamp epoch + offset.
C7_RoundTrip ==
    (/\ decoded.kind = "components" /\ decoded.id = outcome.id
     /\ decoded.epoch = epoch[G]
     /\ lastTimestamp[G] - epoch[G] >= 0
     /\ BitLength(lastTimestamp[G] - epoch[G]) <= TIMESTAMP_BITS)
        => /\ decoded.datacenterId = datacenterId[G]
           /\ decoded.workerId = workerId[G]
           /\ decoded.sequence = sequence[G]
           /\ decoded.timestamp = lastTimestamp[G]

C7_Witness ==
    /\ decoded.kind = "components" /\ decoded.id = outcome.id
    /\ decoded.epoch = epoch[G] /\ epoch[G] = CustomEpoch
    /\ lastTimestamp[G] > epoch[G]
    /\ datacenterId[G] = 16 /\ workerId[G] = 31 /\ sequence[G] = 4095

\* The fields createSnowflake validates, after defaulting.
GivenDatacenterId == Default(outcome.config, "datacenterId", 0)
GivenWorkerId == Default(outcome.config, "workerId", 0)

C9_ErrorNames ==
    /\ (outcome.op = "create" /\ outcome.kind = "throw") =>
          IF GivenDatacenterId \notin 0..31
            THEN outcome.error = [text |-> "Datacenter ID must be between 0 and", max |-> 31]
            ELSE outcome.error = [text |-> "Worker ID must be between 0 and", max |-> 31]
    /\ (outcome.op = "generate" /\ outcome.kind = "throw") =>
          outcome.error.text = "Clock moved backwards. Refusing to generate id"

\* Both fields were out of range.
C9_Witness ==
    /\ outcome.op = "create" /\ outcome.kind = "throw"
    /\ GivenDatacenterId = 32 /\ GivenWorkerId = -1

\* C10 (Spec): two ids returned by different generators that have the same
\* epoch and different (datacenterId, workerId) pairs are different.
C10_CrossInstance ==
    \A i, j \in 1..Len(emitted) :
        LET a == emitted[i].gen
            b == emitted[j].gen
        IN  (/\ a # b /\ epoch[a] = epoch[b]
             /\ <<datacenterId[a], workerId[a]>> # <<datacenterId[b], workerId[b]>>)
                => emitted[i].id # emitted[j].id

\* Both generators returned an id for the same millisecond and sequence, one
\* with (31, 0) and the other with (0, 31).
C10_Witness ==
    /\ Len(emitted) >= 2 /\ emitted[1].gen # emitted[2].gen
    /\ epoch[1] = epoch[2] /\ lastTimestamp[1] = lastTimestamp[2]
    /\ sequence[1] = 0 /\ sequence[2] = 0
    /\ <<datacenterId[1], workerId[1]>> = <<31, 0>>
    /\ <<datacenterId[2], workerId[2]>> = <<0, 31>>

\* The timestamp decoded from the i-th id returned, with the epoch of the
\* generator that returned it.
DecodedTimestamp(i) == Timestamp(emitted[i].id, epoch[emitted[i].gen])

\* C11 (Spec), as stated: the timestamps decoded from the ids the two
\* generators returned are non-decreasing in call order, whatever the clock
\* readings of the calls were.
C11_Chronological ==
    \A i, j \in 1..Len(emitted) : i < j => DecodedTimestamp(i) <= DecodedTimestamp(j)

\* C11 (Spec), amended: whenever the clock reading of an earlier call is not
\* later than the reading of a later call, the timestamp decoded from the
\* earlier id (with its generator's epoch) is not later than the timestamp
\* decoded from the later id; so under a non-decreasing clock the decoded
\* timestamps are non-decreasing in call order.
C11_ChronologicalSteadyClock ==
    \A i, j \in 1..Len(emitted) :
        (i < j /\ emitted[i].now <= emitted[j].now)
            => DecodedTimestamp(i) <= DecodedTimestamp(j)

\* Two generators with different epochs and datacenter ids were called
\* alternately, two calls within one millisecond and one a millisecond later.
C11_Witness ==
    /\ Len(emitted) = 3
    /\ emitted[1].gen = 1 /\ emitted[2].gen = 2 /\ emitted[3].gen = 1
    /\ emitted[1].now = 1 /\ emitted[2].now = 1 /\ emitted[3].now = 2
    /\ epoch[1] = CustomEpoch /\ epoch[2] = DEFAULT_EPOCH
    /\ datacenterId[1] = 31 /\ datacenterId[2] = 0

\* C12 (Spec): createSnowflake captures the configured fields (a missing
\* one being its default), and the first id a generator returns, built at
\* clock reading t, parses with the generator's epoch to timestamp t, the
\* configured datacenter id, the configured worker id and sequence 0.
C12_FirstCall ==
    /\ (outcome.op = "create" /\ outcome.kind = "generator") =>
          /\ epoch[G] = Default(outcome.config, "epoch", DEFAULT_EPOCH)
          /\ datacenterId[G] = GivenDatacenterId
          /\ workerId[G] = GivenWorkerId
    /\ \A i \in 1..Len(emitted) :
          LET g == emitted[i].gen
              p == Parsed(emitted[i].id, epoch[g])
          IN  (\A j \in 1..(i - 1) : emitted[j].gen # g) =>
                 /\ p.timestamp = emitted[i].now
                 /\ p.datacenterId = datacenterId[g]
                 /\ p.workerId = workerId[g]
                 /\ p.sequence = 0

\* The first call of a generator with a custom epoch and the largest
\* datacenter id, made after the other generator's first call.
C12_Witness ==
    /\ Len(emitted) = 2 /\ emitted[1].gen = 1 /\ emitted[2].gen = 2
    /\ epoch[2] = CustomEpoch /\ datacenterId[2] = 31 /\ workerId[2] = 0
    /\ emitted[2].now = 2

\* An optionally signed run of decimal digits.
DecimalNumeral(s) ==
    \/ AllDigits(s)
    \/ Len(s) > 1 /\ s[1] \in {"-", "+"} /\ AllDigits(Tail(s))

\* C15 (SpecText): parseSnowflakeId, getSnowflakeTimestamp and
\* snowflakeToDate, given a string that is not a decimal numeral (the empty
\* string included), throw and return nothing.
C15_FailFast ==
    (decoded.fn # "none" /\ ~DecimalNumeral(decoded.id)) => decoded.kind = "throw"

\* C16 (SpecCodec): parseSnowflakeId(id, e1) and parseSnowflakeId(id, e2)
\* return the same datacenter id, worker id and sequence, and timestamps
\* that differ by e2 - e1; with the epoch argument left out e1 is the
\* default epoch, whatever the epoch of the generator that returned the id.
C16_OtherEpoch ==
    (decoded.fn = "parseSnowflakeId" /\ decoded.kind = "components") =>
        LET e1 == IF decoded.args = <<>> THEN DEFAULT_EPOCH ELSE decoded.args[1]
        IN  \A e2 \in {DEFAULT_EPOCH} \cup Epochs :
                LET p == Parsed(decoded.id, e2)
                IN  /\ p.datacenterId = decoded.datacenterId
                    /\ p.workerId = decoded.workerId
                    /\ p.sequence = decoded.sequence
                    /\ p.timestamp - decoded.timestamp = e2 - e1

\* An id of a generator with the custom epoch was parsed with the custom
\* epoch passed, and with the epoch left out.
C16_Witness ==
    /\ decoded.fn = "parseSnowflakeId" /\ decoded.kind = "components"
    /\ decoded.id = outcome.id /\ epoch[G] = CustomEpoch
    /\ decoded.args = <<CustomEpoch>> /\ decoded.timestamp = lastTimestamp[G]
    /\ datacenterId[G] = 31 /\ sequence[G] = 4095

\* C17 (SpecCodec): a decoder call changes no generator's state and no
\* outcome of a generator call; getSnowflakeTimestamp(id, e) returns the
\* timestamp parseSnowflakeId(id, e) returns, and the Date snowflakeToDate(id,
\* e) returns and the date parseSnowflakeId(id, e) returns have that
\* timestamp as their time value.
C17_Readers ==
    [][decoded' # decoded =>
          /\ UNCHANGED <<gen, running, outcome>>
          /\ decoded'.kind = "number"
                => decoded'.timestamp = Parsed(decoded'.id, decoded'.epoch).timestamp
          /\ decoded'.kind = "date"
                => /\ decoded'.date = Parsed(decoded'.id, decoded'.epoch).date
                   /\ decoded'.date = Parsed(decoded'.id, decoded'.epoch).timestamp
          /\ decoded'.kind = "components"
                => decoded'.date = decoded'.timestamp]_vars

\* snowflakeToDate returned the Date of the reading an id was built from.
C17_Witness ==
    /\ decoded.fn = "snowflakeToDate" /\ decoded.kind = "date"
    /\ decoded.id = outcome.id /\ decoded.args = <<CustomEpoch>>
    /\ epoch[G] = CustomEpoch /\ decoded.date = lastTimestamp[G]
    /\ lastTimestamp[G] > CustomEpoch /\ workerId[G] = 31

\* The field f of a configuration is missing or undefined.
Absent(config, f) == f \notin DOMAIN config \/ config[f] = Undefined

\* The value a field resolves to when the overrides come first, then the
\* configuration the adapter loaded, then `fallback`.
Resolved(f, fallback) ==
    IF ~Absent(adapter.arg, f) THEN adapter.arg[f][1]
    ELSE IF ~Absent(adapter.loaded, f) THEN adapter.loaded[f][1]
    ELSE fallback

\* C13 (SpecStorage): the generator createSnowflakeFromStorage builds has, as
\* datacenter id and as worker id, the override if one is given, else the
\* value loaded from localStorage if there is one, else the value generated
\* from the browser's characteristics.
C13_StoragePrecedence ==
    (adapter.fn = "createSnowflakeFromStorage" /\ outcome.kind = "generator") =>
        /\ datacenterId[G] = Resolved("datacenterId", adapter.browser["datacenterId"][1])
        /\ workerId[G] = Resolved("workerId", adapter.browser["workerId"][1])

\* The three variables and the fields they configure.
EnvFields == {<<ENV_VARS.EPOCH, "epoch">>,
              <<ENV_VARS.DATACENTER_ID, "datacenterId">>,
              <<ENV_VARS.WORKER_ID, "workerId">>}

\* C14 (SpecEnv): when loadConfigFromEnv does not throw, the configuration
\* createSnowflakeFromEnv passes to createSnowflake, and the generator it
\* builds, have as epoch, datacenter id and worker id the override if one is
\* given, else the value loaded from the environment (the number a variable's
\* numeral denotes), else the default; so overriding one field leaves the
\* others at their environment values.
C14_EnvPrecedence ==
    (adapter.fn = "createSnowflakeFromEnv" /\ adapter.error = NoMessage) =>
        /\ \A nf \in EnvFields :
              (nf[1] \in DOMAIN env /\ DecimalNumeral(env[nf[1]]))
                  => adapter.loaded[nf[2]] = <<BigIntOfString(env[nf[1]])>>
        /\ outcome.op = "create"
        /\ Default(outcome.config, "epoch", DEFAULT_EPOCH) = Resolved("epoch", DEFAULT_EPOCH)
        /\ Default(outcome.config, "datacenterId", 0) = Resolved("datacenterId", 0)
        /\ Default(outcome.config, "workerId", 0) = Resolved("workerId", 0)
        /\ outcome.kind = "generator" =>
              /\ epoch[G] = Resolved("epoch", DEFAULT_EPOCH)
              /\ datacenterId[G] = Resolved("datacenterId", 0)
              /\ workerId[G] = Resolved("workerId", 0)

\* With all three variables set, the worker id alone was overridden.
C14_Witness ==
    /\ adapter.fn = "createSnowflakeFromEnv" /\ outcome.kind = "generator"
    /\ DOMAIN adapter.arg = {"workerId"}
    /\ DOMAIN env = {ENV_VARS.EPOCH, ENV_VARS.DATACENTER_ID, ENV_VARS.WORKER_ID}
    /\ env[ENV_VARS.DATACENTER_ID] = <<"3", "1">> /\ env[ENV_VARS.WORKER_ID] = <<"0">>
    /\ epoch[G] = CustomEpoch /\ datacenterId[G] = 31 /\ workerId[G] = 15

\* C18 (SpecEnv): loadConfigFromEnv throws whenever a variable that is set
\* is not the numeral of an integer, or is the datacenter id's or the worker
\* id's and denotes a number outside 0..31; when it returns, the field of a
\* variable that is not set is absent and the datacenter id and the worker
\* id are in 0..31.
C18_EnvValidation ==
    adapter.fn = "loadConfigFromEnv" =>
        /\ \A nf \in EnvFields :
              (/\ nf[1] \in DOMAIN env
               /\ \/ ~DecimalNumeral(env[nf[1]])
                  \/ nf[2] # "epoch" /\ BigIntOfString(env[nf[1]]) \notin 0..31)
                  => adapter.kind = "throw"
        /\ adapter.kind = "config" =>
              /\ \A nf \in EnvFields :
                    nf[1] \notin DOMAIN env => Absent(adapter.loaded, nf[2])
              /\ \A f \in {"datacenterId", "workerId"} :
                    Absent(adapter.loaded, f) \/ adapter.loaded[f][1] \in 0..31

\* The three items and the fields they configure.
StorageFields == {<<BROWSER_CONFIG_KEYS.EPOCH, "epoch">>,
                  <<BROWSER_CONFIG_KEYS.DATACENTER_ID, "datacenterId">>,
                  <<BROWSER_CONFIG_KEYS.WORKER_ID, "workerId">>}

\* C19 (SpecStorage): loadConfigFromStorage always returns a configuration;
\* its datacenter id and worker id are absent or in 0..31; the field of a
\* stored item that is not the numeral of an integer, or (for the two ids)
\* denotes a number outside 0..31, is absent; and createSnowflakeFromStorage
\* fails only when an override is out of range.
C19_StorageValidation ==
    /\ adapter.fn = "loadConfigFromStorage" =>
          /\ adapter.kind = "config"
          /\ \A f \in {"datacenterId", "workerId"} :
                Absent(adapter.loaded, f) \/ adapter.loaded[f][1] \in 0..31
          /\ \A kf \in StorageFields :
                (/\ kf[1] \in DOMAIN localStorage.items
                 /\ \/ ~DecimalNumeral(localStorage.items[kf[1]])
                    \/ kf[2] # "epoch"
                         /\ BigIntOfString(localStorage.items[kf[1]]) \notin 0..31)
                    => Absent(adapter.loaded, kf[2])
    /\ (adapter.fn = "createSnowflakeFromStorage" /\ adapter.kind # "generator") =>
          \E f \in {"datacenterId", "workerId"} :
              ~Absent(adapter.arg, f) /\ adapter.arg[f][1] \notin 0..31

\* A configuration with an epoch and both ids in 0..31.
Complete(c) ==
    /\ \A f \in Fields : ~Absent(c, f)
    /\ c["datacenterId"][1] \in 0..31 /\ c["workerId"][1] \in 0..31

\* C20 (SpecStorage), as stated: loadConfigFromStorage called after
\* saveConfigToStorage(c), c complete, returns c's epoch, datacenter id and
\* worker id.
C20_RoundTrip ==
    (/\ adapter.fn = "loadConfigFromStorage"
     /\ adapter.saved # <<>> /\ Complete(adapter.saved[1]))
        => \A f \in Fields :
              ~Absent(adapter.loaded, f) /\ adapter.loaded[f] = adapter.saved[1][f]

\* C20 (SpecStorage), amended: the same, where localStorage is defined.
C20_RoundTripAvailable ==
    (/\ adapter.fn = "loadConfigFromStorage"
     /\ adapter.saved # <<>> /\ Complete(adapter.saved[1])
     /\ localStorage.defined)
        => \A f \in Fields :
              ~Absent(adapter.loaded, f) /\ adapter.loaded[f] = adapter.saved[1][f]

\* A configuration of three zeros was saved over stored items and loaded.
C20_Witness ==
    /\ adapter.fn = "loadConfigFromStorage" /\ localStorage.defined
    /\ adapter.saved = <<[epoch |-> <<0>>, datacenterId |-> <<0>>, workerId |-> <<0>>]>>
    /\ adapter.loaded = [epoch |-> <<0>>, datacenterId |-> <<0>>, workerId |-> <<0>>]
    /\ adapter.warnings = <<>>

\* The configuration keys that localStorage holds an item for.
StoredKeys ==
    { kf[1] : kf \in StorageFields } \cap DOMAIN localStorage.items

\* C21 (SpecStorage): clearStoredConfig leaves no item under any of the three
\* keys; while none is stored, only saveConfigToStorage stores one; and
\* loadConfigFromStorage, called while none is stored, returns a
\* configuration whose epoch, datacenter id and worker id are all absent.
\* So every loadConfigFromStorage between a clearStoredConfig and the next
\* save reports the three fields absent, whatever was saved before.
C21_Clear ==
    [][/\ adapter'.fn = "clearStoredConfig" => StoredKeys' = {}
       /\ (StoredKeys = {} /\ adapter.fn # "none"
               /\ adapter'.fn # "saveConfigToStorage") => StoredKeys' = {}
       /\ (StoredKeys = {} /\ adapter'.fn = "loadConfigFromStorage") =>
              \A f \in Fields : Absent(adapter'.loaded, f)]_vars

\* clearStoredConfig was called right after a complete configuration with a
\* custom epoch was saved.
C21_Witness ==
    /\ adapter.fn = "clearStoredConfig" /\ localStorage.defined
    /\ adapter.saved = <<[epoch |-> <<CustomEpoch>>, datacenterId |-> <<5>>,
                          workerId |-> <<10>>]>>
    /\ StoredKeys = {}

\* C22 (SpecStorage): a call saveConfigToStorage(config) stores, for each
\* field of config that is defined, the numeral of its value under the
\* field's key, and leaves every other key as it was: stored with the same
\* text, or not stored.
C22_PartialSave ==
    [][adapter'.fn = "saveConfigToStorage" =>
          \A kf \in StorageFields :
              IF localStorage.defined /\ ~Absent(adapter'.arg, kf[2])
                THEN /\ kf[1] \in DOMAIN localStorage'.items
                     /\ localStorage'.items[kf[1]] =
                            NumberToString(adapter'.arg[kf[2]][1])
              ELSE /\ kf[1] \in DOMAIN localStorage'.items
                        <=> kf[1] \in DOMAIN localStorage.items
                   /\ kf[1] \in DOMAIN localStorage.items =>
                        localStorage'.items[kf[1]] = localStorage.items[kf[1]]]_vars

\* A datacenter id alone was saved over a stored worker id that no save
\* writes, and the worker id is still there.
C22_Witness ==
    /\ adapter.fn = "saveConfigToStorage" /\ localStorage.defined
    /\ DOMAIN adapter.arg = {"datacenterId"}
    /\ BROWSER_CONFIG_KEYS.WORKER_ID \in DOMAIN localStorage.items
    /\ localStorage.items[BROWSER_CONFIG_KEYS.WORKER_ID] = <<"7", "x">>
    /\ localStorage.items[BROWSER_CONFIG_KEYS.DATACENTER_ID] = <<"0">>

\* The two ids and the keys they are stored under.
IdFields == { kf \in StorageFields : kf[2] # "epoch" }

\* What a call initializeBrowserConfig(options) returned, field by field: the
\* caller's value where the caller's config defines the field, else the
\* value generated from the browser's characteristics, and no epoch where
\* the caller gives none.
ReturnedMerged(call) ==
    LET userConfig == Default(call.arg, "config", NoConfig)
    IN  /\ DOMAIN call.browser = {"datacenterId", "workerId"}
        /\ \A f \in Fields :
              IF ~Absent(userConfig, f) THEN call.final[f] = userConfig[f]
              ELSE IF f \in DOMAIN call.browser THEN call.final[f] = call.browser[f]
              ELSE Absent(call.final, f)

\* The caller asked initializeBrowserConfig to save.
SaveAsked(call) == "save" \in DOMAIN call.arg /\ call.arg["save"]

\* The two ids are stored as the numerals of the ids that the call returned.
StoredAsReturned(call, storage) ==
    \A kf \in IdFields :
        /\ kf[1] \in DOMAIN storage.items
        /\ storage.items[kf[1]] = NumberToString(call.final[kf[2]][1])

\* C23 (SpecBrowser), as stated: initializeBrowserConfig returns the
\* configuration generated from the browser's characteristics, overridden
\* field by field by the caller's config; with save absent or false it
\* leaves localStorage as it was; with save true the datacenter id and the
\* worker id stored afterwards are the returned ones.
C23_Initialize ==
    [][adapter'.fn = "initializeBrowserConfig" =>
          /\ ReturnedMerged(adapter')
          /\ ~SaveAsked(adapter') => localStorage' = localStorage
          /\ SaveAsked(adapter') => StoredAsReturned(adapter', localStorage')]_vars

\* C23 (SpecBrowser), amended: the same, the ids being stored where
\* localStorage is defined.
C23_InitializeAvailable ==
    [][adapter'.fn = "initializeBrowserConfig" =>
          /\ ReturnedMerged(adapter')
          /\ ~SaveAsked(adapter') => localStorage' = localStorage
          /\ (SaveAsked(adapter') /\ localStorage.defined)
                => StoredAsReturned(adapter', localStorage')]_vars

\* A call with save true and a worker id, in New York, over the epoch and the
\* datacenter id that an earlier call stored.
C23_Witness ==
    /\ adapter.fn = "initializeBrowserConfig"
    /\ adapter.arg = [save |-> TRUE, config |-> [workerId |-> <<15>>]]
    /\ adapter.final = [datacenterId |-> <<17>>, workerId |-> <<15>>]
    /\ localStorage.defined
    /\ localStorage.items =
          [k \in {BROWSER_CONFIG_KEYS.EPOCH, BROWSER_CONFIG_KEYS.DATACENTER_ID,
                  BROWSER_CONFIG_KEYS.WORKER_ID} |->
              IF k = BROWSER_CONFIG_KEYS.EPOCH THEN NumberToString(CustomEpoch)
              ELSE IF k = BROWSER_CONFIG_KEYS.DATACENTER_ID THEN <<"1", "7">>
              ELSE <<"1", "5">>]

C25_FingerprintRange ==
    adapter.fn \in {"generateBrowserConfig", "initializeBrowserConfig"} =>
        /\ adapter.browser["datacenterId"][1] \in 0..31
        /\ adapter.browser["workerId"][1] \in 0..31
        /\ ~DatacenterIdInvalid(adapter.browser["datacenterId"][1])
        /\ ~WorkerIdInvalid(adapter.browser["workerId"][1])

\* navigator and screen are there with every property undefined or null, in
\* New York: the hash of "|||||" and a negative hash of the time zone.
C25_Witness ==
    /\ adapter.fn = "generateBrowserConfig"
    /\ browser.navigator =
          <<NoProperties({"userAgent", "language", "hardwareConcurrency"})>>
    /\ browser.screen = <<NoProperties({"width", "height", "colorDepth"})>>
    /\ HashFrom(0, browser.timeZone) < 0
    /\ adapter.browser = [datacenterId |-> <<17>>, workerId |-> <<28>>]

\* C26 (Spec): a step of one generator, be it its construction (accepted or
\* rejected) or one of its generate() calls (returning or throwing), leaves
\* the lastTimestamp and the sequence of every other generator, and what
\* that generator was constructed with, as they were.
C26_Isolation ==
    [][\A h \in Gens :
         h # outcome'.gen =>
            /\ lastTimestamp'[h] = lastTimestamp[h] /\ sequence'[h] = sequence[h]
            /\ created'[h] = created[h] /\ epoch'[h] = epoch[h]
            /\ datacenterId'[h] = datacenterId[h] /\ workerId'[h] = workerId[h]]_vars

\* Generator 2 has returned an id of millisecond 2; generator 1, after an id
\* of millisecond 1, has thrown.
C26_Witness ==
    /\ outcome.op = "generate" /\ outcome.kind = "throw" /\ G = 1
    /\ lastTimestamp[1] = 1 /\ sequence[1] = 0
    /\ created[2] /\ lastTimestamp[2] = 2 /\ sequence[2] = 0

\* C27 (SpecSeq): before a generator has returned an id, lastTimestamp is -1
\* and sequence is 0; sequence is in 0..4095 in every state; and between
\* calls sequence is the sequence field of the id returned last.
C27_State ==
    \A g \in Gens :
        /\ sequence[g] \in 0..4095
        /\ lastId[g] = <<>> => lastTimestamp[g] = -1 /\ sequence[g] = 0
        /\ (Idle /\ lastId[g] # <<>>)
              => sequence[g] = BitAnd(lastId[g][1], MAX_SEQUENCE)

\* The generator has returned the 4096th id of a millisecond and then failed
\* a call.
C27_Witness ==
    /\ outcome.op = "generate" /\ outcome.kind = "throw"
    /\ sequence[G] = 4095 /\ lastId[G] # <<>>

\* C28 (SpecSeq): a generate() call that reads a clock value equal to
\* lastTimestamp, with sequence below 4095, returns an id with that timestamp
\* and sequence + 1, the number of the id returned before plus 1; a call
\* that reads a clock value greater than lastTimestamp returns an id with
\* that timestamp and sequence 0.
C28_Tick ==
    [][\A g \in Gens :
         (Idle /\ outcome' # outcome /\ outcome'.op = "generate" /\ outcome'.gen = g)
            => /\ (outcome'.read = lastTimestamp[g] /\ sequence[g] < 4095) =>
                     /\ outcome'.kind = "id"
                     /\ Parsed(outcome'.id, epoch[g]).timestamp = lastTimestamp[g]
                     /\ Parsed(outcome'.id, epoch[g]).sequence = sequence[g] + 1
                     /\ BigIntOfString(outcome'.id) = lastId[g][1] + 1
               /\ outcome'.read > lastTimestamp[g] =>
                     /\ outcome'.kind = "id"
                     /\ Parsed(outcome'.id, epoch[g]).timestamp = outcome'.read
                     /\ Parsed(outcome'.id, epoch[g]).sequence = 0]_vars

\* The sixth id of millisecond 1, the number of the fifth plus 1.
C28_Witness ==
    /\ outcome.kind = "id" /\ ~outcome.waited
    /\ lastTimestamp[G] = 1 /\ sequence[G] = 5
    /\ maxEarlier[G] # <<>> /\ lastId[G][1] = maxEarlier[G][1] + 1

\* C29 (SpecSeq): every id a generator returns carries the generator's
\* lastTimestamp and sequence, the sequence in 0..4095; it has either the
\* timestamp of the id returned before it and the next sequence, or a later
\* timestamp than every id returned before it and sequence 0.  So the ids
\* of one timestamp are returned in a row with the sequences 0, 1, 2, ...,
\* at most 4096 of them.
C29_PerTick ==
    [][\A g \in Gens :
         (outcome' # outcome /\ outcome'.kind = "id" /\ outcome'.gen = g)
            => /\ Parsed(outcome'.id, epoch[g]).timestamp = lastTimestamp'[g]
               /\ Parsed(outcome'.id, epoch[g]).sequence = sequence'[g]
               /\ sequence'[g] \in 0..4095
               /\ IF lastTimestamp'[g] = lastTimestamp[g]
                    THEN Idle /\ sequence'[g] = sequence[g] + 1
                  ELSE lastTimestamp'[g] > lastTimestamp[g] /\ sequence'[g] = 0]_vars

\* The 4096th id of millisecond 0 has been returned.
C29_Witness ==
    /\ outcome.kind = "id" /\ lastTimestamp[G] = 0 /\ sequence[G] = 4095
    /\ lastId[G] # <<>> /\ BitAnd(lastId[G][1], MAX_SEQUENCE) = 4095

\* C30 (SpecSeqFair): a generate() call returns or throws on its one clock
\* reading, unless that reading is lastTimestamp and the sequence wraps from
\* 4095 to 0; only then is a call left running, in the spin-wait, and it
\* returns once the clock, read again and again, gives a reading later than
\* lastTimestamp (within the bounded clock: while lastTimestamp is below
\* MaxClock).
C30_Termination ==
    /\ [](outcome.op = "generate" =>
            /\ running # 0 <=> outcome.kind = "spinning"
            /\ ~outcome.waited =>
                  outcome.kind \in {"id", "throw"} /\ outcome.now = outcome.read
            /\ outcome.waited =>
                  LET before == IF outcome.kind = "spinning" THEN lastId[G]
                                ELSE maxEarlier[G]
                  IN  /\ outcome.kind \in {"spinning", "id"}
                      /\ before # <<>>
                      /\ BitAnd(before[1], MAX_SEQUENCE) = MAX_SEQUENCE
                      /\ Shr(before[1], TIMESTAMP_SHIFT) + epoch[G] = outcome.read)
    /\ (running = 1 /\ lastTimestamp[1] < MaxClock) ~> (running = 0)

\* A call that read 1, waited, and returned the id of the later reading 2.
C30_Witness ==
    /\ running = 0 /\ outcome.kind = "id" /\ outcome.waited
    /\ outcome.read = 1 /\ outcome.now = 2 /\ lastTimestamp[G] = 2

\* The timestamp of the id the latest generate() call returned, decoded with
\* the generator's epoch.
IssuedTimestamp == Timestamp(outcome.id, epoch[G])

\* C31 (SpecTimed), as stated: after a generate() call has returned,
\* lastTimestamp is the last clock reading the call took, the id decoded
\* with the generator's epoch has that timestamp, and the timestamp is not
\* earlier than the reading the caller took just before the call and not
\* later than the reading the caller took just after it.
C31_Fidelity ==
    (outcome.op = "generate" /\ outcome.kind = "id") =>
        /\ lastTimestamp[G] = outcome.now
        /\ IssuedTimestamp = outcome.now
        /\ caller.before # <<>> => caller.before[1] <= IssuedTimestamp
        /\ caller.after # <<>> => IssuedTimestamp <= caller.after[1]

\* C31 (SpecTimed), amended: the same, the timestamp lying between the two
\* readings of the caller where the clock did not go back from the reading
\* before the call to the call's first reading, nor from the call's last
\* reading to the reading after it.
C31_FidelitySteadyClock ==
    (outcome.op = "generate" /\ outcome.kind = "id") =>
        /\ lastTimestamp[G] = outcome.now
        /\ IssuedTimestamp = outcome.now
        /\ (caller.before # <<>> /\ caller.before[1] <= outcome.read)
              => caller.before[1] <= IssuedTimestamp
        /\ (caller.after # <<>> /\ outcome.now <= caller.after[1])
              => IssuedTimestamp <= caller.after[1]

\* A timed call that exhausted the sequence at reading 1, waited, and
\* returned the id of reading 2, between the caller's readings 0 and 2.
C31_Witness ==
    /\ outcome.op = "generate" /\ outcome.kind = "id" /\ outcome.waited
    /\ caller.before = <<0>> /\ caller.after = <<2>>
    /\ outcome.read = 1 /\ lastTimestamp[G] = 2 /\ IssuedTimestamp = 2
\* The i-th id returned is the first one of its generator.
FirstOfGenerator(i) == \A k \in 1..(i - 1) : emitted[k].gen # emitted[i].gen

\* Generators a and b were constructed with the same fields.
EquallyConfigured(a, b) ==
    <<epoch[a], datacenterId[a], workerId[a]>> = <<epoch[b], datacenterId[b], workerId[b]>>

\* C32 (Spec): construction accepts every configuration whose ids are in
\* range, one that an existing generator already has included; a generate()
\* call throws only when its reading is before the generator's own
\* lastTimestamp; and the first ids of two generators with the same epoch,
\* datacenterId and workerId, built at the same clock reading t, are the
\* same id, of timestamp t and sequence 0.
C32_Duplicates ==
    /\ (/\ outcome.op = "create"
        /\ ~DatacenterIdInvalid(GivenDatacenterId)
        /\ ~WorkerIdInvalid(GivenWorkerId)) => outcome.kind = "generator"
    /\ (outcome.op = "generate" /\ outcome.kind = "throw")
          => outcome.read < lastTimestamp[G]
    /\ \A i, j \in 1..Len(emitted) :
          LET a == emitted[i].gen
              b == emitted[j].gen
          IN  (/\ a # b /\ EquallyConfigured(a, b)
               /\ FirstOfGenerator(i) /\ FirstOfGenerator(j)
               /\ emitted[i].now = emitted[j].now)
                 => /\ emitted[i].id = emitted[j].id
                    /\ Parsed(emitted[i].id, epoch[a]).sequence = 0
                    /\ Parsed(emitted[i].id, epoch[a]).timestamp = emitted[i].now

\* Two generators with the custom epoch, datacenter 31 and worker 0 have
\* each returned their first id at reading 1, and the two ids are equal.
C32_Witness ==
    /\ Len(emitted) = 2 /\ emitted[1].gen = 1 /\ emitted[2].gen = 2
    /\ EquallyConfigured(1, 2) /\ datacenterId[1] = 31 /\ workerId[1] = 0
    /\ emitted[1].now = 1 /\ emitted[2].now = 1
    /\ emitted[1].id = emitted[2].id

\* The sequence field of an id a one-shot call returned.
OneShotSequence(call) ==
    Parsed(call.id, Default(call.config, "epoch", DEFAULT_EPOCH)).sequence

StartsCall(g) ==
    Idle /\ outcome' # outcome /\ outcome'.op = "generate" /\ outcome'.gen = g

\* C34 (SpecSeq): a generate() call that throws leaves lastTimestamp and
\* sequence as they were and ends there, after its one clock reading; a
\* call whose reading is at least lastTimestamp does not throw, whether or
\* not the call before it threw; and every id returned is greater than every
\* id the generator returned before.
C34_FailedCall ==
    [][\A g \in Gens :
         /\ (StartsCall(g) /\ outcome'.kind = "throw") =>
               /\ lastTimestamp'[g] = lastTimestamp[g] /\ sequence'[g] = sequence[g]
               /\ running' = 0 /\ ~outcome'.waited
               /\ outcome'.now = outcome'.read /\ outcome'.id = <<>>
               /\ lastId' = lastId /\ maxEarlier' = maxEarlier
         /\ (StartsCall(g) /\ outcome'.read >= lastTimestamp[g]) =>
               outcome'.kind \in {"id", "spinning"}
         /\ (outcome'.kind = "id" /\ outcome'.gen = g /\ outcome' # outcome) =>
               /\ lastId[g] # <<>> => BigIntOfString(outcome'.id) > lastId[g][1]
               /\ maxEarlier[g] # <<>> => BigIntOfString(outcome'.id) > maxEarlier[g][1]]_vars

\* A call that read 0 has thrown, the generator being at millisecond 2 with
\* sequence 3.
C34_Witness ==
    /\ outcome.op = "generate" /\ outcome.kind = "throw" /\ outcome.read = 0
    /\ lastTimestamp[G] = 2 /\ sequence[G] = 3
    /\ lastId[G] # <<>> /\ BitAnd(lastId[G][1], MAX_SEQUENCE) = 3

\* C35 (SpecSeq): a generate() call that reads the clock earlier than
\* lastTimestamp throws only when that reading is its first; in the
\* spin-wait a reading earlier than, or equal to, lastTimestamp leaves the
\* call waiting with lastTimestamp and sequence unchanged, and the step in
\* which the call returns is one whose reading is later than lastTimestamp.
C35_SpinRegression ==
    [][\A g \in Gens :
         /\ (outcome'.op = "generate" /\ outcome'.gen = g /\ outcome'.kind = "throw"
             /\ outcome' # outcome)
               => Idle /\ outcome'.now = outcome'.read /\ ~outcome'.waited
         /\ running = g =>
               /\ outcome'.kind # "throw"
               /\ outcome'.now <= lastTimestamp[g] =>
                     /\ running' = g /\ outcome'.kind = "spinning"
                     /\ lastTimestamp'[g] = lastTimestamp[g]
                     /\ sequence'[g] = sequence[g]
               /\ outcome'.kind = "id" =>
                     /\ outcome'.now > lastTimestamp[g]
                     /\ lastTimestamp'[g] = outcome'.now]_vars

\* A call waiting at millisecond 2 has read the clock at 0 and goes on
\* waiting.
C35_Witness ==
    /\ running = 1 /\ outcome.kind = "spinning" /\ outcome.read = 2
    /\ outcome.now = 0 /\ lastTimestamp[1] = 2 /\ sequence[1] = 0

\* C36 (SpecSeq): no step decreases the lastTimestamp of a generator,
\* whatever the clock readings of its calls and of their spin-waits are.
C36_NeverDecreases ==
    [][\A g \in Gens : lastTimestamp'[g] >= lastTimestamp[g]]_vars

\* The generator, having returned an id of millisecond 1, has now returned
\* the first id of millisecond 2.
C36_Witness ==
    /\ outcome.op = "generate" /\ outcome.kind = "id" /\ ~outcome.waited
    /\ lastTimestamp[1] = 2 /\ sequence[1] = 0
    /\ maxEarlier[1] # <<>>
    /\ Shr(maxEarlier[1][1], TIMESTAMP_SHIFT) + epoch[1] = 1

\* The variables of the two ids and the fields they configure.
IdEnvFields == { nf \in EnvFields : nf[2] # "epoch" }

\* C37 (SpecEnv): createSnowflakeFromEnv throws whenever the datacenter-id
\* or the worker-id variable is set to something that is not the numeral of
\* an integer in 0..31, also when the override gives that field a valid
\* value; and when the environment is accepted, an override outside 0..31 is
\* rejected by createSnowflake with its own error.
C37_EnvBeforeOverride ==
    adapter.fn = "createSnowflakeFromEnv" =>
        /\ \A nf \in IdEnvFields :
              (/\ nf[1] \in DOMAIN env
               /\ \/ ~DecimalNumeral(env[nf[1]])
                  \/ BigIntOfString(env[nf[1]]) \notin 0..31)
                  => adapter.kind = "throw" /\ adapter.error # NoMessage
        /\ (/\ adapter.error = NoMessage
            /\ \E f \in {"datacenterId", "workerId"} :
                  /\ f \in DOMAIN adapter.arg /\ adapter.arg[f] # Undefined
                  /\ adapter.arg[f][1] \notin 0..31)
              => /\ adapter.kind = "throw" /\ outcome.kind = "throw"
                 /\ outcome.error \in {DatacenterError, WorkerError}

\* The value of field f in the generator createSnowflakeFromStorage builds
\* without localStorage: the override, else the fingerprint's, else the
\* default.
Unstored(f, default) ==
    IF ~Absent(adapter.arg, f) THEN adapter.arg[f][1]
    ELSE IF ~Absent(adapter.browser, f) THEN adapter.browser[f][1]
    ELSE default

\* C38 (SpecStorage): where localStorage does not exist,
\* loadConfigFromStorage returns the empty configuration without a warning;
\* saveConfigToStorage and clearStoredConfig return without throwing and
\* nothing is stored; and createSnowflakeFromStorage loads nothing and
\* returns a new generator (lastTimestamp -1, sequence 0) whose epoch,
\* datacenter id and worker id are the override's, else the fingerprint's,
\* else the default, throwing only when one of these ids, given by the
\* override, is outside 0..31.
C38_Unavailable ==
    ~localStorage.defined =>
        /\ localStorage.items = NoConfig
        /\ adapter.fn = "loadConfigFromStorage" =>
              /\ adapter.kind = "config" /\ adapter.loaded = NoConfig
              /\ adapter.warnings = <<>>
        /\ adapter.fn \in {"saveConfigToStorage", "clearStoredConfig"} =>
              adapter.kind = "void"
        /\ adapter.fn = "createSnowflakeFromStorage" =>
              /\ adapter.loaded = NoConfig /\ adapter.warnings = <<>>
              /\ adapter.browser["datacenterId"][1] \in 0..31
              /\ adapter.browser["workerId"][1] \in 0..31
              /\ IF /\ Unstored("datacenterId", 0) \in 0..31
                    /\ Unstored("workerId", 0) \in 0..31
                   THEN /\ adapter.kind = "generator" /\ outcome.kind = "generator"
                        /\ created[G]
                        /\ epoch[G] = Unstored("epoch", DEFAULT_EPOCH)
                        /\ datacenterId[G] = Unstored("datacenterId", 0)
                        /\ workerId[G] = Unstored("workerId", 0)
                        /\ lastTimestamp[G] = -1 /\ sequence[G] = 0
                 ELSE /\ adapter.kind = "throw"
                      /\ \E f \in {"datacenterId", "workerId"} :
                            ~Absent(adapter.arg, f) /\ adapter.arg[f][1] \notin 0..31

\* Without localStorage, createSnowflakeFromStorage({ datacenterId: 20 })
\* built a generator with the override's datacenter id and the
\* fingerprint's worker id 9.
C38_Witness ==
    /\ ~localStorage.defined
    /\ adapter.fn = "createSnowflakeFromStorage" /\ adapter.kind = "generator"
    /\ adapter.arg = [datacenterId |-> <<20>>]
    /\ adapter.browser = [datacenterId |-> <<MAX_DATACENTER_ID>>, workerId |-> <<9>>]
    /\ datacenterId[G] = 20 /\ workerId[G] = 9

====
